---- MODULE Spec2Model ----
(***************************************************************************)
(* DynamicPartitionControlAndroid (update_engine): preparation of the      *)
(* target slot's dynamic partitions before an OTA update.                  *)
(*                                                                         *)
(* The controller's fields are the variables.  Its collaborators (liblp's  *)
(* MetadataBuilder, device-mapper, libsnapshot's SnapshotManager, the      *)
(* property store) are outside the repository: every call to them returns  *)
(* a value drawn from the set of values the call can return, and the call  *)
(* is appended to the trace of the operation in progress.                  *)
(*                                                                         *)
(* Sizes are in units of 50 MiB; uint64_t is scaled down to UintBits bits. *)
(***************************************************************************)
EXTENDS Integers, Sequences, FiniteSets, TLC

VARIABLES
    dynamic_partitions_,        \* FeatureFlag of dynamic partitions
    virtual_ab_,                \* FeatureFlag of Virtual A/B
    kIsRecovery,                \* build-time constant __ANDROID_RECOVERY__
    mapped_devices_,            \* std::set<std::string>
    source_slot_,
    target_slot_,
    is_target_dynamic_,
    target_supports_snapshot_,
    metadata_device_,           \* TRUE iff the AutoDevice handle is non-null
    update_state,               \* SnapshotManager's UpdateState
    call,                       \* the last operation: arguments and results
    trace                       \* collaborator calls made by the last operation

vars == << dynamic_partitions_, virtual_ab_, kIsRecovery, mapped_devices_,
           source_slot_, target_slot_, is_target_dynamic_,
           target_supports_snapshot_, metadata_device_, update_state,
           call, trace >>

----------------------------------------------------------------------------
(* Bounds of the model *)

\* width of the scaled-down uint64_t
UintBits == 4
\* most groups a manifest declares
MaxGroups == 2

----------------------------------------------------------------------------
(* Words and names *)

RECURSIVE Pow2(_)
Pow2(n) == IF n = 0 THEN 1 ELSE 2 * Pow2(n - 1)

UintRange == Pow2(UintBits)
HalfRange == Pow2(UintBits - 1)

\* uint64_t a; a += b
AddU64(a, b) == (a + b) % UintRange

Slots == {0, 1}
kInvalidSlot == -1

SlotSuffixForSlotNumber(slot) == IF slot = 0 THEN "_a" ELSE "_b"

EndsWith(str, suffix) ==
    /\ Len(str) >= Len(suffix)
    /\ SubSeq(str, Len(str) - Len(suffix) + 1, Len(str)) = suffix

kCowGroupName == "cow"
\* mutant: partitions are added without the read-only attribute
LP_PARTITION_ATTR_NONE == "NONE"

LP_PARTITION_ATTR_READONLY == "READONLY"

----------------------------------------------------------------------------
(* FeatureFlag *)

FeatureFlagValues == {"NONE", "RETROFIT", "LAUNCH"}

\* mutant: every device counts as having the feature
IsEnabled_Always(flag) == TRUE

IsEnabled(flag) == flag # "NONE"
IsRetrofit(flag) == flag = "RETROFIT"
IsLaunch(flag) == flag = "LAUNCH"

\* mutant: the enabled property is read first and decides alone
GetFeatureFlag_EnabledFirst(enabled, retrofit) ==
    IF ~enabled THEN "NONE"
    ELSE IF retrofit THEN "RETROFIT"
    ELSE "LAUNCH"

GetFeatureFlag(enabled, retrofit) ==
    IF retrofit THEN "RETROFIT"
    ELSE IF enabled THEN "LAUNCH"
    ELSE "NONE"

----------------------------------------------------------------------------
(* MetadataBuilder: a table of groups and partitions.                      *)
(*   groups     : set of [name, maximum_size]                              *)
(*   partitions : set of [name, group_name, size, attributes]              *)
(*   allocatable: AllocatableSpace()                                       *)

FindGroup(builder, name) == {g \in builder.groups : g.name = name}
FindPartition(builder, name) == {p \in builder.partitions : p.name = name}
ListGroups(builder) == {g.name : g \in builder.groups}
AllocatableSpace(builder) == builder.allocatable

RECURSIVE SumSizes(_)
SumSizes(ps) ==
    IF ps = {} THEN 0
    ELSE LET p == CHOOSE x \in ps : TRUE IN p.size + SumSizes(ps \ {p})

RemoveGroupAndPartitions(builder, group_name) ==
    [builder EXCEPT
        !.groups = {g \in @ : g.name # group_name},
        !.partitions = {p \in @ : p.group_name # group_name}]

AddGroup(builder, group_name, maximum_size) ==
    IF FindGroup(builder, group_name) # {}
    THEN [ok |-> FALSE, builder |-> builder]
    ELSE [ok |-> TRUE,
          builder |-> [builder EXCEPT !.groups =
              @ \cup {[name |-> group_name, maximum_size |-> maximum_size]}]]

AddPartition(builder, name, group_name, attributes) ==
    IF \/ name = ""
       \/ FindPartition(builder, name) # {}
       \/ FindGroup(builder, group_name) = {}
    THEN [ok |-> FALSE, builder |-> builder]
    ELSE [ok |-> TRUE,
          builder |-> [builder EXCEPT !.partitions =
              @ \cup {[name |-> name, group_name |-> group_name, size |-> 0,
                       attributes |-> {attributes}]}]]

\* Fails when the partition's group would exceed its maximum size (0 means
\* no limit) or the partitions would no longer fit the allocatable space.
ResizePartition(builder, name, requested_size) ==
    LET p == CHOOSE x \in builder.partitions : x.name = name
        g == CHOOSE x \in builder.groups : x.name = p.group_name
        others == builder.partitions \ {p}
        in_group == {x \in others : x.group_name = p.group_name}
    IN  IF \/ (g.maximum_size > 0
                 /\ SumSizes(in_group) + requested_size > g.maximum_size)
           \/ SumSizes(others) + requested_size > AllocatableSpace(builder)
        THEN [ok |-> FALSE, builder |-> builder]
        ELSE [ok |-> TRUE,
              builder |-> [builder EXCEPT !.partitions =
                  others \cup {[p EXCEPT !.size = requested_size]}]]

RECURSIVE RemoveGroups(_, _)
RemoveGroups(builder, names) ==
    IF names = {} THEN builder
    ELSE LET n == CHOOSE x \in names : TRUE
         IN  RemoveGroups(RemoveGroupAndPartitions(builder, n), names \ {n})

DeleteGroupsWithSuffix(builder, suffix) ==
    RemoveGroups(builder, {n \in ListGroups(builder) : EndsWith(n, suffix)})

----------------------------------------------------------------------------
(* DeltaArchiveManifest                                                    *)
(*   groups    : sequence of [name, size, partition_names]                 *)
(*   partitions: sequence of [partition_name, new_size, has_old]           *)
(*   snapshot_enabled                                                      *)

Group(name, size, partition_names) ==
    [name |-> name, size |-> size, partition_names |-> partition_names]

PartitionUpdate(partition_name, new_size, has_old) ==
    [partition_name |-> partition_name, new_size |-> new_size,
     has_old |-> has_old]

Manifest(groups, partitions, snapshot_enabled) ==
    [groups |-> groups, partitions |-> partitions,
     snapshot_enabled |-> snapshot_enabled]

\* std::map::emplace keeps the first entry of a name
HasPartitionSize(manifest, partition_name) ==
    \E i \in 1..Len(manifest.partitions) :
        manifest.partitions[i].partition_name = partition_name

PartitionSize(manifest, partition_name) ==
    LET i == CHOOSE k \in 1..Len(manifest.partitions) :
                 /\ manifest.partitions[k].partition_name = partition_name
                 /\ \A j \in 1..(k - 1) :
                        manifest.partitions[j].partition_name # partition_name
    IN  manifest.partitions[i].new_size

RECURSIVE TotalGroupSize(_, _)
TotalGroupSize(groups, i) ==
    IF i > Len(groups) THEN 0
    ELSE AddU64(groups[i].size, TotalGroupSize(groups, i + 1))

----------------------------------------------------------------------------
(* UpdatePartitionMetadata *)

UpmResult(ret, step, builder, total_size, allocatable_space) ==
    [ret |-> ret, step |-> step, builder |-> builder,
     total_size |-> total_size, allocatable_space |-> allocatable_space]

\* mutant: the COW group is left in the table
ClearStaleGroups_KeepCow(builder, target_suffix) ==
    DeleteGroupsWithSuffix(builder, target_suffix)

\* mutant: the groups of the target slot are left in the table
ClearStaleGroups_KeepTarget(builder, target_suffix) ==
    RemoveGroupAndPartitions(builder, kCowGroupName)

\* the COW group and the target slot's groups are dropped first
ClearStaleGroups(builder, target_suffix) ==
    DeleteGroupsWithSuffix(
        RemoveGroupAndPartitions(builder, kCowGroupName), target_suffix)

\* mutant: partition_sizes[partition_name], which yields 0 for a missing name
PartitionSizesFind_Default(manifest, partition_name) ==
    IF HasPartitionSize(manifest, partition_name)
    THEN {PartitionSize(manifest, partition_name)}
    ELSE {0}

\* partition_sizes.find(partition_name): the set holding the size, or {}
PartitionSizesFind(manifest, partition_name) ==
    IF HasPartitionSize(manifest, partition_name)
    THEN {PartitionSize(manifest, partition_name)}
    ELSE {}

\* mutant: the group keeps the manifest's name
GroupNameSuffix_Plain(group, target_suffix) == group.name

GroupNameSuffix(group, target_suffix) == group.name \o target_suffix

\* mutant: the space is never halved
SpaceBudget_Full(builder) == AllocatableSpace(builder)

\* the budget the group sizes are checked against
SpaceBudget(builder) ==
    IF ~IsRetrofit(dynamic_partitions_)
    THEN AllocatableSpace(builder) \div 2
    ELSE AllocatableSpace(builder)

\* the loop over group.partition_names()
RECURSIVE AddGroupPartitions(_, _, _, _, _)
AddGroupPartitions(builder, manifest, group, target_suffix, j) ==
    IF j > Len(group.partition_names)
    THEN [ok |-> TRUE, step |-> "done", builder |-> builder]
    ELSE
      LET partition_name == group.partition_names[j]
          partition_name_suffix == partition_name \o target_suffix
          group_name_suffix == GroupNameSuffix(group, target_suffix)
          found == PartitionSizesFind(manifest, partition_name)
      IN  IF found = {}
          THEN [ok |-> FALSE, step |-> "not_in_manifest", builder |-> builder]
          ELSE
            LET added == AddPartition(builder, partition_name_suffix,
                                      group_name_suffix,
                                      LP_PARTITION_ATTR_READONLY)
            IN  IF ~added.ok
                THEN [ok |-> FALSE, step |-> "add_partition",
                      builder |-> builder]
                ELSE
                  LET resized == ResizePartition(
                                     added.builder, partition_name_suffix,
                                     CHOOSE size \in found : TRUE)
                  IN  IF ~resized.ok
                      THEN [ok |-> FALSE, step |-> "resize",
                            builder |-> added.builder]
                      ELSE AddGroupPartitions(resized.builder, manifest,
                                              group, target_suffix, j + 1)

\* the loop over manifest.dynamic_partition_metadata().groups()
RECURSIVE AddManifestGroups(_, _, _, _)
AddManifestGroups(builder, manifest, target_suffix, i) ==
    IF i > Len(manifest.groups)
    THEN [ok |-> TRUE, step |-> "done", builder |-> builder]
    ELSE
      LET group == manifest.groups[i]
          added == AddGroup(builder, GroupNameSuffix(group, target_suffix),
                            group.size)
      IN  IF ~added.ok
          THEN [ok |-> FALSE, step |-> "add_group", builder |-> builder]
          ELSE
            LET filled == AddGroupPartitions(added.builder, manifest, group,
                                             target_suffix, 1)
            IN  IF ~filled.ok THEN filled
                ELSE AddManifestGroups(filled.builder, manifest,
                                       target_suffix, i + 1)

UpdatePartitionMetadata(builder, target_slot, manifest) ==
    LET target_suffix == SlotSuffixForSlotNumber(target_slot)
        cleared == ClearStaleGroups(builder, target_suffix)
        total_size == TotalGroupSize(manifest.groups, 1)
        allocatable_space == SpaceBudget(cleared)
    IN  IF total_size > allocatable_space
        THEN UpmResult(FALSE, "budget", cleared, total_size,
                       allocatable_space)
        ELSE LET r == AddManifestGroups(cleared, manifest, target_suffix, 1)
             IN  UpmResult(r.ok, r.step, r.builder, total_size,
                           allocatable_space)

----------------------------------------------------------------------------
(* Execution of one operation.  st holds the controller's fields, the      *)
(* snapshot manager's state, the caller's *required_size and the trace; an *)
(* operation yields the set of outcomes [st, ret] its collaborators allow. *)

Out(st, ret) == [st |-> st, ret |-> ret]

Log(st, fn, arg, ret) ==
    [st EXCEPT !.trace = Append(@, [fn |-> fn, arg |-> arg, ret |-> ret])]

DmDeviceStates == {"INVALID", "SUSPENDED", "ACTIVE"}

\* mutant: every build takes the recovery fallback
IsRecovery_Always == TRUE

IsRecovery == kIsRecovery

\* mutant: DestroyLogicalPartition is called whatever the state
NeedsDestroy_Always(state) == TRUE

\* GetState(target_partition_name) != DmDeviceState::INVALID
NeedsDestroy(state) == state # "INVALID"

\* the end of UnmapPartitionOnDeviceMapper; what it returns is recorded
\* in the trace
UnmapReturn(st, target_partition_name, success) ==
    IF ~success
    THEN Out(Log(st, "UnmapPartitionOnDeviceMapper", target_partition_name,
                 FALSE), FALSE)
    ELSE Out(Log([st EXCEPT !.mapped_devices_ = @ \ {target_partition_name}],
                 "UnmapPartitionOnDeviceMapper", target_partition_name,
                 TRUE), TRUE)

UnmapPartitionOnDeviceMapper(st, target_partition_name) ==
    UNION {
      LET s1 == Log(st, "GetState", target_partition_name, state)
      IN  IF NeedsDestroy(state)
          THEN UNION {
                 LET s2 == Log(s1, "DestroyLogicalPartition",
                               target_partition_name, destroyed)
                 IN  IF IsEnabled(virtual_ab_)
                     THEN { UnmapReturn(
                                Log(s2, "UnmapUpdateSnapshot",
                                    target_partition_name, unmapped),
                                target_partition_name, destroyed /\ unmapped)
                            : unmapped \in BOOLEAN }
                     ELSE { UnmapReturn(s2, target_partition_name,
                                        destroyed) }
                 : destroyed \in BOOLEAN }
          ELSE { UnmapReturn(s1, target_partition_name, TRUE) }
      : state \in DmDeviceStates }

----------------------------------------------------------------------------
(* Super-partition metadata on storage *)

\* AllocatableSpace() is a whole number of sectors: an even number of units
AllocatableSpaces == {6, 8}

\* A table of the slot's own group, optionally with a group left for the
\* other slot and the copy-on-write group of an earlier Virtual A/B update.
StoredTable(slot, with_other, with_cow, allocatable) ==
    LET own == SlotSuffixForSlotNumber(slot)
        other == SlotSuffixForSlotNumber(1 - slot)
    IN  [groups |->
            {[name |-> "android" \o own, maximum_size |-> 4]}
            \cup (IF with_other
                  THEN {[name |-> "android" \o other, maximum_size |-> 4]}
                  ELSE {})
            \cup (IF with_cow
                  THEN {[name |-> kCowGroupName, maximum_size |-> 0]}
                  ELSE {}),
         partitions |->
            {[name |-> "system" \o own, group_name |-> "android" \o own,
              size |-> 3, attributes |-> {LP_PARTITION_ATTR_READONLY}]}
            \cup (IF with_other
                  THEN {[name |-> "system" \o other,
                         group_name |-> "android" \o other,
                         size |-> 3,
                         attributes |-> {LP_PARTITION_ATTR_READONLY}]}
                  ELSE {})
            \cup (IF with_cow
                  THEN {[name |-> "system" \o other \o "-cow",
                         group_name |-> kCowGroupName,
                         size |-> 1, attributes |-> {}]}
                  ELSE {}),
         allocatable |-> allocatable]

\* what the metadata of a slot can hold when it is read
StoredTables(slot) ==
    {StoredTable(slot, leftover, leftover, a) :
        leftover \in BOOLEAN, a \in AllocatableSpaces}

\* The result is the set holding the builder, or {} for nullptr.
LoadMetadataBuilder(st, source_slot, target_slot) ==
    LET arg == IF target_slot = kInvalidSlot
               THEN [source_slot |-> source_slot]
               ELSE [source_slot |-> source_slot,
                     target_slot |-> target_slot,
                     always_keep_source_slot |->
                         ~st.target_supports_snapshot_]
        fn == IF target_slot = kInvalidSlot
              THEN "MetadataBuilder::New"
              ELSE "MetadataBuilder::NewForUpdate"
    IN  { Out(Log(st, fn, arg, loaded), loaded) :
            loaded \in {{}} \cup {{b} : b \in StoredTables(source_slot)} }

StoreMetadata(st, builder, target_slot) ==
    UNION {
      LET s1 == Log(st, "Export", builder, exported)
      IN  IF ~exported THEN { Out(s1, FALSE) }
          ELSE IF IsRetrofit(dynamic_partitions_)
          THEN { Out(Log(s1, "FlashPartitionTable", builder, written),
                     written) : written \in BOOLEAN }
          ELSE { Out(Log(s1, "UpdatePartitionTable",
                         [metadata |-> builder, slot |-> target_slot],
                         written),
                     written) : written \in BOOLEAN }
      : exported \in BOOLEAN }

GetDeviceDir(st) ==
    { Out(Log(st, "GetDeviceDir", "misc", found), found) :
        found \in BOOLEAN }

----------------------------------------------------------------------------
(* DeleteSourcePartitions *)

\* mutant: no payload counts as incremental
IsIncrementalUpdate_Never(manifest) == FALSE

IsIncrementalUpdate(manifest) ==
    \E i \in 1..Len(manifest.partitions) : manifest.partitions[i].has_old

DeleteSourcePartitions(builder, source_slot, manifest) ==
    IF ~IsRecovery THEN [ok |-> FALSE, builder |-> builder]
    ELSE IF IsIncrementalUpdate(manifest)
    THEN [ok |-> FALSE, builder |-> builder]
    ELSE [ok |-> TRUE,
          builder |-> DeleteGroupsWithSuffix(
                          builder, SlotSuffixForSlotNumber(source_slot))]

----------------------------------------------------------------------------
(* PreparePartitionsForUpdate *)

\* the loop over every group's partition_names(), flattened
RECURSIVE GroupPartitionNames(_, _)
GroupPartitionNames(groups, i) ==
    IF i > Len(groups) THEN << >>
    ELSE groups[i].partition_names \o GroupPartitionNames(groups, i + 1)

\* mutant: a failed unmap does not end the call
UnmapFailed_Ignored(ret) == FALSE

\* if (!UnmapPartitionOnDeviceMapper(partition_name + target_suffix))
UnmapFailed(ret) == ~ret

RECURSIVE UnmapTargetPartitions(_, _, _, _)
UnmapTargetPartitions(st, names, target_suffix, i) ==
    IF i > Len(names) THEN { Out(st, TRUE) }
    ELSE UNION {
           IF UnmapFailed(o.ret) THEN { o }
           ELSE UnmapTargetPartitions(o.st, names, target_suffix, i + 1)
           : o \in UnmapPartitionOnDeviceMapper(st, names[i] \o target_suffix) }

\* mutant: the result of UpdatePartitionMetadata is not looked at
TableBuilt_Unchecked(upm) == TRUE

\* if (!UpdatePartitionMetadata(builder.get(), target_slot, manifest))
TableBuilt(upm) == upm.ret

\* from LoadMetadataBuilder's result on
UpdateAndStoreMetadata(st, builder, source_slot, target_slot, manifest, delete_source) ==
    LET deleted == IF delete_source
                   THEN DeleteSourcePartitions(builder, source_slot, manifest)
                   ELSE [ok |-> TRUE, builder |-> builder]
        s1 == IF delete_source
              THEN Log(st, "DeleteSourcePartitions", source_slot, deleted.ok)
              ELSE st
    IN  IF ~deleted.ok THEN { Out(s1, FALSE) }
        ELSE
          LET upm == UpdatePartitionMetadata(deleted.builder, target_slot,
                                             manifest)
              s2 == Log(s1, "UpdatePartitionMetadata", deleted.builder, upm)
          IN  IF ~TableBuilt(upm) THEN { Out(s2, FALSE) }
              ELSE StoreMetadata(s2, upm.builder, target_slot)

PrepareDynamicPartitionsForUpdate(st, source_slot, target_slot, manifest, delete_source) ==
    LET target_suffix == SlotSuffixForSlotNumber(target_slot)
        names == GroupPartitionNames(manifest.groups, 1)
    IN  UNION {
          IF ~u.ret THEN { u }
          ELSE UNION {
                 IF ~d.ret THEN { d }
                 ELSE UNION {
                        IF l.ret = {} THEN { Out(l.st, FALSE) }
                        ELSE UpdateAndStoreMetadata(
                                 l.st, CHOOSE b \in l.ret : TRUE, source_slot,
                                 target_slot, manifest, delete_source)
                        : l \in LoadMetadataBuilder(d.st, source_slot,
                                                    target_slot) }
                 : d \in GetDeviceDir(u.st) }
          : u \in UnmapTargetPartitions(st, names, target_suffix, 1) }

\* what CreateUpdateSnapshots can return: success, a plain error, or
\* NO_SPACE with the additional space it needs
RequiredSizes == {10}
SnapshotReturns ==
    {[ok |-> TRUE, error_code |-> "SUCCESS", required_size |-> 0],
     [ok |-> FALSE, error_code |-> "ERROR", required_size |-> 0]}
    \cup {[ok |-> FALSE, error_code |-> "NO_SPACE", required_size |-> r] :
            r \in RequiredSizes}

\* mutant: the required size is not passed on
ReportRequiredSize_Dropped(st, r, has_required_size) == st

\* *required_size is set only for NO_SPACE, and only through a pointer
ReportRequiredSize(st, r, has_required_size) ==
    IF has_required_size /\ r.error_code = "NO_SPACE"
    THEN [st EXCEPT !.required_size = r.required_size]
    ELSE st

PrepareSnapshotPartitionsForUpdate(st, source_slot, target_slot, manifest, has_required_size) ==
    UNION {
      IF ~began THEN { Out(Log(st, "BeginUpdate", "", FALSE), FALSE) }
      ELSE
        LET s1 == [Log(st, "BeginUpdate", "", TRUE)
                      EXCEPT !.update_state = "Initiated"]
        IN  { LET s2 == Log(s1, "CreateUpdateSnapshots", manifest, r)
              IN  IF ~r.ok
                  THEN Out(ReportRequiredSize(s2, r, has_required_size),
                           FALSE)
                  ELSE Out(s2, TRUE)
              : r \in SnapshotReturns }
      : began \in BOOLEAN }

\* mutant: the result of CancelUpdate is not looked at
CancelSucceeded_Ignored(cancelled) == TRUE

\* if (!snapshot_->CancelUpdate()) return false;
CancelSucceeded(cancelled) == cancelled

\* snapshot_->CancelUpdate() and what follows it
CancelAndPrepareDynamic(st, source_slot, target_slot, manifest, delete_source) ==
    UNION {
      LET s1 == Log(st, "CancelUpdate", "", cancelled)
          s2 == IF cancelled THEN [s1 EXCEPT !.update_state = "None"]
                ELSE s1
      IN  IF ~CancelSucceeded(cancelled) THEN { Out(s2, FALSE) }
          ELSE PrepareDynamicPartitionsForUpdate(
                   s2, source_slot, target_slot, manifest, delete_source)
      : cancelled \in BOOLEAN }

\* mutant: the source slot's groups are kept on fallback
DeleteSourceOnFallback_Keep == FALSE

\* delete_source after a failed snapshot attempt in recovery
DeleteSourceOnFallback == TRUE

\* mutant: a successful snapshot attempt does not end the call
SnapshotDone_Never(ret) == FALSE

\* if (PrepareSnapshotPartitionsForUpdate(...)) return true;
SnapshotDone(ret) == ret

\* from `bool delete_source = false;` on
PrepareForWrite(st, source_slot, target_slot, manifest, has_required_size) ==
    IF IsEnabled(virtual_ab_)
    THEN IF st.target_supports_snapshot_
         THEN UNION {
                IF SnapshotDone(p.ret) THEN { p }
                ELSE IF ~IsRecovery THEN { Out(p.st, FALSE) }
                ELSE CancelAndPrepareDynamic(p.st, source_slot, target_slot,
                                             manifest, DeleteSourceOnFallback)
                : p \in PrepareSnapshotPartitionsForUpdate(
                            st, source_slot, target_slot, manifest,
                            has_required_size) }
         ELSE CancelAndPrepareDynamic(st, source_slot, target_slot, manifest,
                                      FALSE)
    ELSE PrepareDynamicPartitionsForUpdate(st, source_slot, target_slot,
                                           manifest, FALSE)

\* mutant: the slots are not compared
IsCurrentSlot_Unchecked(source_slot, target_slot) == FALSE

IsCurrentSlot(source_slot, target_slot) == target_slot = source_slot

\* mutant: every payload counts as a dynamic one
IsTargetDynamic_Always(manifest) == TRUE

\* !manifest.dynamic_partition_metadata().groups().empty()
IsTargetDynamic(manifest) == manifest.groups # << >>

\* mutant: the call goes on as if update were set
WritesRequested_Always(update) == TRUE

\* if (!update) return true;
WritesRequested(update) == update

PreparePartitionsForUpdate(st, source_slot, target_slot, manifest, update, has_required_size) ==
    LET s1 == [st EXCEPT !.source_slot_ = source_slot,
                         !.target_slot_ = target_slot,
                         !.required_size =
                             IF has_required_size THEN 0 ELSE @]
    IN  IF ~IsEnabled(dynamic_partitions_) THEN { Out(s1, TRUE) }
        ELSE IF IsCurrentSlot(source_slot, target_slot)
        THEN { Out(s1, FALSE) }
        ELSE
          LET s2 == [s1 EXCEPT !.is_target_dynamic_ = IsTargetDynamic(manifest)]
          IN  IF ~s2.is_target_dynamic_ THEN { Out(s2, TRUE) }
              ELSE
                LET s3 == [s2 EXCEPT !.target_supports_snapshot_ =
                                         manifest.snapshot_enabled]
                    mounted ==
                        IF IsEnabled(virtual_ab_)
                        THEN { Out([Log(s3, "EnsureMetadataMounted", "", m)
                                       EXCEPT !.metadata_device_ = m], m)
                               : m \in BOOLEAN }
                        ELSE { Out(s3, TRUE) }
                IN  UNION {
                      IF ~o.ret THEN { o }
                      ELSE IF ~WritesRequested(update)
                      THEN { Out(o.st, TRUE) }
                      ELSE PrepareForWrite(o.st, source_slot, target_slot,
                                           manifest, has_required_size)
                      : o \in mounted }

----------------------------------------------------------------------------
(* Mapping partitions on device mapper *)

kMapTimeout == "kMapTimeout"
kMapSnapshotTimeout == "kMapSnapshotTimeout"

CreateLogicalPartitionParams(target_partition_name, slot, force_writable, timeout_ms) ==
    [partition_name |-> target_partition_name, metadata_slot |-> slot,
     force_writable |-> force_writable, timeout_ms |-> timeout_ms]

\* mutant: the name is remembered whether or not the map call succeeded
MapCreated_Unchecked(success) == TRUE

\* if (!success) return false; before mapped_devices_.insert
MapCreated(success) == success

MapPartitionInternal(st, target_partition_name, slot, force_writable) ==
    LET with_snapshot == /\ IsEnabled(virtual_ab_)
                         /\ st.target_supports_snapshot_
                         /\ force_writable
        fn == IF with_snapshot THEN "MapUpdateSnapshot"
              ELSE "CreateLogicalPartition"
        params == CreateLogicalPartitionParams(
                      target_partition_name, slot, force_writable,
                      IF with_snapshot THEN kMapSnapshotTimeout
                      ELSE kMapTimeout)
    IN  { LET s1 == Log(st, fn, params, success)
          IN  IF ~MapCreated(success) THEN Out(s1, FALSE)
              ELSE Out([s1 EXCEPT !.mapped_devices_ =
                          @ \cup {target_partition_name}], TRUE)
          : success \in BOOLEAN }

\* GetDmDevicePathByName(name, path)
GetDmDevicePathByName(st, name) ==
    { Out(Log(st, "GetDmDevicePathByName", name, found), found) :
        found \in BOOLEAN }

\* mutant: whatever state is read after the unmap, the device is mapped
IsUnmapped_Any(state) == TRUE

\* state == DmDeviceState::INVALID, read again after the unmap
IsUnmapped(state) == state = "INVALID"

\* the unmap of a device this object did not map, and the state after it
UnmapStrayDevice(st, target_partition_name, slot, force_writable) ==
    UNION {
      IF ~u.ret THEN { u }
      ELSE UNION {
             LET s1 == Log(u.st, "GetState", target_partition_name, state)
             IN  IF ~IsUnmapped(state) THEN { Out(s1, FALSE) }
                 ELSE MapPartitionInternal(s1, target_partition_name, slot,
                                           force_writable)
             : state \in DmDeviceStates }
      : u \in UnmapPartitionOnDeviceMapper(st, target_partition_name) }

\* mutant: every active device counts as mapped by this object
IsMappedByUs_Always(mapped_devices, target_partition_name) == TRUE

\* mapped_devices_.find(target_partition_name) != mapped_devices_.end()
IsMappedByUs(mapped_devices, target_partition_name) == target_partition_name \in mapped_devices

MapPartitionOnDeviceMapper(st, target_partition_name, slot, force_writable) ==
    UNION {
      LET s1 == Log(st, "GetState", target_partition_name, state)
      IN  IF state = "ACTIVE"
          THEN IF IsMappedByUs(s1.mapped_devices_, target_partition_name)
               THEN GetDmDevicePathByName(s1, target_partition_name)
               ELSE UnmapStrayDevice(s1, target_partition_name, slot,
                                     force_writable)
          ELSE IF state = "INVALID"
          THEN MapPartitionInternal(s1, target_partition_name, slot,
                                    force_writable)
          ELSE { Out(s1, FALSE) }
      : state \in DmDeviceStates }

----------------------------------------------------------------------------
(* GetPartitionDevice *)

DynamicPartitionDeviceStatus == {"SUCCESS", "ERROR", "TRY_STATIC"}

\* what a call that dereferenced a null pointer yields besides a result
kUndefined == "UNDEFINED"

\* source_metadata->HasBlockDevice(partition_name_suffix); the metadata
\* pointer is used unchecked, so with a failed load the result is arbitrary
\* or the process ends there (the call then has no result: it is recorded
\* as an "abort" entry closing the trace)
IsSuperBlockDevice(st, current_slot, partition_name_suffix) ==
    UNION {
      { Out(Log(l.st, "HasBlockDevice",
                [name |-> partition_name_suffix, null |-> l.ret = {}],
                has), has) : has \in BOOLEAN }
      : l \in LoadMetadataBuilder(st, current_slot, kInvalidSlot) }

\* mutant: every partition is mapped writable
ForceWritable_Always(slot, current_slot) == TRUE

\* bool force_writable = slot != current_slot
ForceWritable(slot, current_slot) == slot # current_slot

\* mutant: an active mapping of the current slot is never reused
IsMappedActive_Never(state) == FALSE

\* GetState(partition_name_suffix) == DmDeviceState::ACTIVE
IsMappedActive(state) == state = "ACTIVE"

\* from `if (slot == current_slot)` on
UseOrMapDevice(st, partition_name_suffix, slot, current_slot) ==
    LET map == { Out(m.st, IF m.ret THEN "SUCCESS" ELSE "ERROR") :
                   m \in MapPartitionOnDeviceMapper(
                             st, partition_name_suffix, slot,
                             ForceWritable(slot, current_slot)) }
    IN  IF slot = current_slot
        THEN UNION {
               LET s1 == Log(st, "GetState", partition_name_suffix, state)
               IN  IF ~IsMappedActive(state)
                   THEN { Out(m.st, IF m.ret THEN "SUCCESS" ELSE "ERROR") :
                            m \in MapPartitionOnDeviceMapper(
                                      s1, partition_name_suffix, slot,
                                      ForceWritable(slot, current_slot)) }
                   ELSE { Out(g.st, IF g.ret THEN "SUCCESS" ELSE "ERROR") :
                            g \in GetDmDevicePathByName(
                                      s1, partition_name_suffix) }
               : state \in DmDeviceStates }
        ELSE map

GetDynamicPartitionDevice(st, partition_name_suffix, slot, current_slot) ==
    UNION {
      IF l.ret = {} THEN { Out(l.st, "ERROR") }
      ELSE IF FindPartition(CHOOSE b \in l.ret : TRUE,
                            partition_name_suffix) = {}
      THEN UNION {
             { Out(i.st, IF i.ret THEN "ERROR" ELSE "TRY_STATIC") }
             \cup (IF i.st.trace[Len(i.st.trace)].arg.null
                   THEN { Out(i.st, kUndefined) }
                   ELSE {})
             : i \in IsSuperBlockDevice(l.st, current_slot,
                                        partition_name_suffix) }
      ELSE UseOrMapDevice(l.st, partition_name_suffix, slot, current_slot)
      : l \in LoadMetadataBuilder(st, slot, kInvalidSlot) }

\* DeviceExists(device_dir / partition_name_suffix)
StaticPartitionDevice(st, partition_name_suffix) ==
    { Out(Log(st, "DeviceExists", partition_name_suffix, exists), exists) :
        exists \in BOOLEAN }

GetPartitionDevice(st, partition_name, slot, current_slot) ==
    LET partition_name_suffix ==
            partition_name \o SlotSuffixForSlotNumber(slot)
    IN  UNION {
          IF ~d.ret THEN { d }
          ELSE IF /\ IsEnabled(dynamic_partitions_)
                  /\ (slot = current_slot \/ d.st.is_target_dynamic_)
          THEN UNION {
                 IF o.ret = "SUCCESS" THEN { Out(o.st, TRUE) }
                 ELSE IF o.ret = "TRY_STATIC"
                 THEN StaticPartitionDevice(o.st, partition_name_suffix)
                 ELSE IF o.ret = kUndefined
                 THEN { Out(Log(o.st, "abort", kUndefined, FALSE), FALSE) }
                 ELSE { Out(o.st, FALSE) }
                 : o \in GetDynamicPartitionDevice(
                             d.st, partition_name_suffix, slot,
                             current_slot) }
          ELSE StaticPartitionDevice(d.st, partition_name_suffix)
          : d \in GetDeviceDir(st) }

----------------------------------------------------------------------------
(* Cleanup, FinishUpdate, OptimizeOperation *)

\* the names a std::set<std::string> of mapped devices can hold, in its
\* iteration order
DeviceNames == << "system_a", "system_b" >>

\* mutant: the loop stops at the first partition that cannot be unmapped
IgnoreResult_Stop(ret) == ret

\* ignore_result(...): the loop goes on whatever the unmap returned
IgnoreResult(ret) == TRUE

\* the loop over the copy of mapped_devices_
RECURSIVE UnmapEach(_, _, _)
UnmapEach(st, mapped, i) ==
    IF i > Len(mapped) THEN { Out(st, TRUE) }
    ELSE UNION {
           IF IgnoreResult(u.ret) THEN UnmapEach(u.st, mapped, i + 1)
           ELSE { Out(u.st, TRUE) }
           : u \in UnmapPartitionOnDeviceMapper(st, mapped[i]) }

UnmapAllPartitions(st) ==
    IF st.mapped_devices_ = {} THEN { Out(st, TRUE) }
    ELSE LET In(name) == name \in st.mapped_devices_
         IN  UnmapEach(st, SelectSeq(DeviceNames, In), 1)

Cleanup(st) ==
    { Out([u.st EXCEPT !.metadata_device_ = FALSE], TRUE) :
        u \in UnmapAllPartitions(st) }

\* mutant: the writes are reported finished in every update state
WritesInProgress_Always(state) == TRUE

\* snapshot_->GetUpdateState() == UpdateState::Initiated
WritesInProgress(state) == state = "Initiated"

FinishUpdate(st) ==
    IF ~IsEnabled(virtual_ab_) THEN { Out(st, TRUE) }
    ELSE LET s1 == Log(st, "GetUpdateState", "", st.update_state)
         IN  IF ~WritesInProgress(st.update_state) THEN { Out(s1, TRUE) }
             ELSE { Out([Log(s1, "FinishedSnapshotWrites", "", finished)
                            EXCEPT !.update_state =
                                IF finished THEN "Unverified" ELSE @],
                        finished) : finished \in BOOLEAN }

InstallOperationTypes == {"REPLACE", "SOURCE_COPY", "ZERO"}

\* mutant: the operation's type is not looked at
IsSourceCopy_Any(type) == TRUE

\* case InstallOperation::SOURCE_COPY
IsSourceCopy(type) == type = "SOURCE_COPY"

OptimizeOperation(st, partition_name, type) ==
    IF ~IsSourceCopy(type) THEN { Out(st, FALSE) }
    ELSE IF ~(/\ st.target_supports_snapshot_
              /\ IsEnabled(virtual_ab_)
              /\ (partition_name \o SlotSuffixForSlotNumber(st.target_slot_))
                     \in st.mapped_devices_)
    THEN { Out(st, FALSE) }
    ELSE { Out(Log(st, "OptimizeSourceCopyOperation", partition_name,
                   optimized), optimized) : optimized \in BOOLEAN }

----------------------------------------------------------------------------
(* The controller after construction, and a PreparePartitionsForUpdate     *)
(* call on it.                                                             *)

UpdateStates == {"None", "Initiated", "Unverified"}

Init ==
    /\ dynamic_partitions_ \in {GetFeatureFlag(e, r) : e, r \in BOOLEAN}
    /\ virtual_ab_ \in {GetFeatureFlag(e, r) : e, r \in BOOLEAN}
    /\ kIsRecovery \in BOOLEAN
    /\ mapped_devices_ = {}
    /\ source_slot_ = kInvalidSlot
    /\ target_slot_ = kInvalidSlot
    /\ is_target_dynamic_ = FALSE
    /\ target_supports_snapshot_ = FALSE
    /\ metadata_device_ = FALSE
    /\ update_state \in (IF IsEnabled(virtual_ab_) THEN UpdateStates
                         ELSE {"None"})
    /\ call = [op |-> "none"]
    /\ trace = << >>

\* the controller's fields at the start of an operation
Entry(required_size) ==
    [mapped_devices_ |-> mapped_devices_,
     source_slot_ |-> source_slot_,
     target_slot_ |-> target_slot_,
     is_target_dynamic_ |-> is_target_dynamic_,
     target_supports_snapshot_ |-> target_supports_snapshot_,
     metadata_device_ |-> metadata_device_,
     update_state |-> update_state,
     required_size |-> required_size,
     trace |-> << >>]

\* the fields an operation leaves
Leave(st) ==
    /\ mapped_devices_' = st.mapped_devices_
    /\ source_slot_' = st.source_slot_
    /\ target_slot_' = st.target_slot_
    /\ is_target_dynamic_' = st.is_target_dynamic_
    /\ target_supports_snapshot_' = st.target_supports_snapshot_
    /\ metadata_device_' = st.metadata_device_
    /\ update_state' = st.update_state
    /\ trace' = st.trace
    /\ UNCHANGED << dynamic_partitions_, virtual_ab_, kIsRecovery >>

\* manifests handed to PreparePartitionsForUpdate: a payload without
\* groups, a full and an incremental payload of one group, a group larger
\* than the space, a group naming a partition the payload lacks, a group of
\* two partitions, a group declared twice, a partition named by two groups
PreparePayloads ==
    {<< << >>,
        << PartitionUpdate("system", 3, FALSE) >> >>,
     << << Group("system_b", 4, << "system" >>) >>,
        << PartitionUpdate("system", 3, FALSE) >> >>,
     << << Group("system_b", 4, << "system" >>) >>,
        << PartitionUpdate("system", 3, TRUE) >> >>,
     << << Group("system_b", HalfRange, << "system" >>) >>,
        << PartitionUpdate("system", 3, FALSE) >> >>,
     << << Group("android", 4, << "system", "vendor" >>) >>,
        << PartitionUpdate("system", 3, FALSE) >> >>,
     << << Group("android", 4, << "system", "vendor" >>) >>,
        << PartitionUpdate("system", 3, FALSE),
           PartitionUpdate("vendor", 1, FALSE) >> >>,
     << << Group("android", 2, << "system" >>),
           Group("android", 2, << >>) >>,
        << PartitionUpdate("system", 1, FALSE) >> >>,
     << << Group("android", 2, << "system" >>),
           Group("oem", 2, << "system" >>) >>,
        << PartitionUpdate("system", 1, FALSE) >> >>}

PrepareManifests ==
    {Manifest(p[1], p[2], s) : p \in PreparePayloads, s \in BOOLEAN}

\* value the caller's required_size variable holds before the call
StaleRequiredSize == 3

PrepareCall ==
    /\ call.op = "none"
    /\ \E source_slot \in Slots, target_slot \in Slots,
          manifest \in PrepareManifests, update \in BOOLEAN,
          has_required_size \in BOOLEAN :
         \E o \in PreparePartitionsForUpdate(
                      Entry(StaleRequiredSize), source_slot, target_slot,
                      manifest, update, has_required_size) :
            /\ Leave(o.st)
            /\ call' = [op |-> "PreparePartitionsForUpdate",
                        source_slot |-> source_slot,
                        target_slot |-> target_slot,
                        manifest |-> manifest,
                        update |-> update,
                        has_required_size |-> has_required_size,
                        ret |-> o.ret,
                        required_size |-> o.st.required_size]

Next == PrepareCall

Spec == Init /\ [][Next]_vars

----------------------------------------------------------------------------
(* UpdatePartitionMetadata applied to a builder and a manifest *)

UpmGroupChoices ==
    {Group(n, s, p) :
        n \in {"android", "oem"},
        s \in {4, HalfRange},
        p \in {<< "system" >>, << "vendor" >>, << "system", "vendor" >>}}

RECURSIVE SeqsUpTo(_, _)
SeqsUpTo(S, n) ==
    IF n = 0 THEN {<< >>}
    ELSE LET shorter == SeqsUpTo(S, n - 1)
         IN  shorter \cup {Append(q, x) : q \in shorter, x \in S}

UpmPartitions ==
    {<< PartitionUpdate("system", 3, FALSE) >>,
     << PartitionUpdate("system", 3, FALSE),
        PartitionUpdate("vendor", 1, FALSE) >>,
     << PartitionUpdate("system", 5, FALSE),
        PartitionUpdate("vendor", 3, FALSE) >>}

UpmManifests ==
    {Manifest(g, p, FALSE) :
        g \in SeqsUpTo(UpmGroupChoices, MaxGroups), p \in UpmPartitions}

InitUpm ==
    /\ Init
    /\ IsEnabled(dynamic_partitions_)
    /\ virtual_ab_ = "NONE"
    /\ ~kIsRecovery

UpmCall ==
    /\ call.op = "none"
    /\ \E target_slot \in Slots, manifest \in UpmManifests :
         \E builder \in StoredTables(1 - target_slot) :
            call' = [op |-> "UpdatePartitionMetadata",
                     builder |-> builder,
                     target_slot |-> target_slot,
                     manifest |-> manifest,
                     result |-> UpdatePartitionMetadata(builder, target_slot,
                                                        manifest)]
    /\ UNCHANGED << dynamic_partitions_, virtual_ab_, kIsRecovery,
                    mapped_devices_, source_slot_, target_slot_,
                    is_target_dynamic_, target_supports_snapshot_,
                    metadata_device_, update_state, trace >>

\* the same call once more, on the table the first call left
UpmRerunCall ==
    /\ call.op = "UpdatePartitionMetadata"
    /\ call' = [op |-> "UpdatePartitionMetadata again",
                builder |-> call.builder,
                target_slot |-> call.target_slot,
                manifest |-> call.manifest,
                first |-> call.result,
                result |-> UpdatePartitionMetadata(
                               call.result.builder, call.target_slot,
                               call.manifest)]
    /\ UNCHANGED << dynamic_partitions_, virtual_ab_, kIsRecovery,
                    mapped_devices_, source_slot_, target_slot_,
                    is_target_dynamic_, target_supports_snapshot_,
                    metadata_device_, update_state, trace >>

NextUpm ==
    \/ UpmCall
    \/ UpmRerunCall

SpecUpm == InitUpm /\ [][NextUpm]_vars

----------------------------------------------------------------------------
(* The file-local helpers applied to their arguments: GetFeatureFlag to    *)
(* the two boolean system properties it reads, DeleteSourcePartitions to   *)
(* a loaded table and a manifest.                                          *)

InitHelpers == Init

GetFeatureFlagCall ==
    /\ call.op = "none"
    /\ \E enabled \in BOOLEAN, retrofit \in BOOLEAN :
         call' = [op |-> "GetFeatureFlag",
                  enabled |-> enabled,
                  retrofit |-> retrofit,
                  flag |-> GetFeatureFlag(enabled, retrofit)]
    /\ UNCHANGED << dynamic_partitions_, virtual_ab_, kIsRecovery,
                    mapped_devices_, source_slot_, target_slot_,
                    is_target_dynamic_, target_supports_snapshot_,
                    metadata_device_, update_state, trace >>

DeleteSourcePartitionsCall ==
    /\ call.op = "none"
    /\ \E source_slot \in Slots, manifest \in PrepareManifests :
         \E builder \in StoredTables(source_slot) :
            call' = [op |-> "DeleteSourcePartitions",
                     builder |-> builder,
                     source_slot |-> source_slot,
                     manifest |-> manifest,
                     result |-> DeleteSourcePartitions(builder, source_slot,
                                                       manifest)]
    /\ UNCHANGED << dynamic_partitions_, virtual_ab_, kIsRecovery,
                    mapped_devices_, source_slot_, target_slot_,
                    is_target_dynamic_, target_supports_snapshot_,
                    metadata_device_, update_state, trace >>

NextHelpers ==
    \/ GetFeatureFlagCall
    \/ DeleteSourcePartitionsCall

SpecHelpers == InitHelpers /\ [][NextHelpers]_vars

----------------------------------------------------------------------------
(* A controller in use: preparations, device lookups, unmaps, FinishUpdate, *)
(* OptimizeOperation and Cleanup in any order, one call at a time.         *)
(* call.prepared remembers the last PreparePartitionsForUpdate, and in     *)
(* reset whether the controller has called BeginUpdate or CancelUpdate.    *)

NotPrepared == [done |-> FALSE, snapshot_enabled |-> FALSE,
                cancelled |-> FALSE, reset |-> FALSE]

LastPrepared ==
    IF "prepared" \in DOMAIN call THEN call.prepared ELSE NotPrepared

SessionManifests ==
    {Manifest(<< >>, << PartitionUpdate("system", 3, FALSE) >>, s) :
        s \in BOOLEAN}
    \cup {Manifest(<< Group("android", 4, << "system" >>) >>,
                   << PartitionUpdate("system", 3, FALSE) >>, s) :
            s \in BOOLEAN}

PartitionNames == {"system", "vendor"}

\* a device launched with dynamic partitions, with or without Virtual A/B
InitSession ==
    /\ Init
    /\ IsLaunch(dynamic_partitions_)
    /\ ~IsRetrofit(virtual_ab_)

PrepareSession ==
    /\ call.op = "none"
    /\ \E target_slot \in Slots, manifest \in SessionManifests,
       update \in BOOLEAN :
      \E o \in PreparePartitionsForUpdate(
                   Entry(0), 0, target_slot, manifest, update, FALSE) :
         /\ Leave(o.st)
         /\ call' = [op |-> "PreparePartitionsForUpdate",
                     source_slot |-> 0,
                     target_slot |-> target_slot,
                     manifest |-> manifest,
                     update |-> update,
                     has_required_size |-> FALSE,
                     ret |-> o.ret,
                     required_size |-> o.st.required_size,
                     mapped_before |-> mapped_devices_,
                     reset_before |-> LastPrepared.reset,
                     prepared |->
                         [done |-> TRUE,
                          snapshot_enabled |-> manifest.snapshot_enabled,
                          cancelled |->
                              \E i \in 1..Len(o.st.trace) :
                                 /\ o.st.trace[i].fn = "CancelUpdate"
                                 /\ o.st.trace[i].ret,
                          reset |->
                              \/ LastPrepared.reset
                              \/ \E i \in 1..Len(o.st.trace) :
                                    o.st.trace[i].fn \in
                                        {"BeginUpdate", "CancelUpdate"}]]

GetPartitionDeviceCall ==
    /\ call.op = "none"
    /\ \E partition_name \in PartitionNames, slot \in Slots,
       current_slot \in Slots :
      \E o \in GetPartitionDevice(Entry(0), partition_name, slot,
                                  current_slot) :
         /\ Leave(o.st)
         /\ call' = [op |-> "GetPartitionDevice",
                     partition_name |-> partition_name,
                     slot |-> slot,
                     current_slot |-> current_slot,
                     ret |-> o.ret,
                     mapped_before |-> mapped_devices_,
                     prepared |-> LastPrepared]

UnmapCall ==
    /\ call.op = "none"
    /\ \E target_partition_name \in {DeviceNames[i] : i \in DOMAIN DeviceNames} :
      \E o \in UnmapPartitionOnDeviceMapper(Entry(0), target_partition_name) :
         /\ Leave(o.st)
         /\ call' = [op |-> "UnmapPartitionOnDeviceMapper",
                     target_partition_name |-> target_partition_name,
                     ret |-> o.ret,
                     mapped_before |-> mapped_devices_,
                     prepared |-> LastPrepared]

CleanupCall ==
    /\ call.op = "none"
    /\ \E o \in Cleanup(Entry(0)) :
       /\ Leave(o.st)
       /\ call' = [op |-> "Cleanup",
                   ret |-> o.ret,
                   mapped_before |-> mapped_devices_,
                   prepared |-> LastPrepared]

FinishUpdateCall ==
    /\ call.op = "none"
    /\ \E o \in FinishUpdate(Entry(0)) :
       /\ Leave(o.st)
       /\ call' = [op |-> "FinishUpdate",
                   ret |-> o.ret,
                   state_before |-> update_state,
                   mapped_before |-> mapped_devices_,
                   prepared |-> LastPrepared]

OptimizeOperationCall ==
    /\ call.op = "none"
    /\ \E partition_name \in PartitionNames, type \in InstallOperationTypes :
      \E o \in OptimizeOperation(Entry(0), partition_name, type) :
         /\ Leave(o.st)
         /\ call' = [op |-> "OptimizeOperation",
                     partition_name |-> partition_name,
                     type |-> type,
                     ret |-> o.ret,
                     mapped_before |-> mapped_devices_,
                     prepared |-> LastPrepared]

\* the call returns to the update engine
Return ==
    /\ call.op # "none"
    /\ call' = IF LastPrepared.done
               THEN [op |-> "none", prepared |-> LastPrepared]
               ELSE [op |-> "none"]
    /\ trace' = << >>
    /\ UNCHANGED << dynamic_partitions_, virtual_ab_, kIsRecovery,
                    mapped_devices_, source_slot_, target_slot_,
                    is_target_dynamic_, target_supports_snapshot_,
                    metadata_device_, update_state >>

NextSession ==
    \/ PrepareSession
    \/ GetPartitionDeviceCall
    \/ UnmapCall
    \/ CleanupCall
    \/ FinishUpdateCall
    \/ OptimizeOperationCall
    \/ Return

SpecSession == InitSession /\ [][NextSession]_vars

----------------------------------------------------------------------------
(* Properties of PreparePartitionsForUpdate *)

IsPrepare == call.op = "PreparePartitionsForUpdate"

TraceHas(fn) == \E i \in 1..Len(trace) : trace[i].fn = fn

\* the call went as far as the snapshot attempt and that attempt failed
SnapshotAttempt ==
    /\ IsPrepare
    /\ IsEnabled(virtual_ab_)
    /\ call.manifest.groups # << >>
    /\ call.manifest.snapshot_enabled
    /\ call.update

FailedSnapshotCall(i) ==
    \/ trace[i].fn = "BeginUpdate" /\ ~trace[i].ret
    \/ trace[i].fn = "CreateUpdateSnapshots" /\ ~trace[i].ret.ok

SnapshotPathFailed == \E i \in 1..Len(trace) : FailedSnapshotCall(i)

\* calls of the legacy metadata path
LegacyCalls ==
    {"GetState", "DestroyLogicalPartition", "UnmapUpdateSnapshot",
     "GetDeviceDir", "MetadataBuilder::NewForUpdate", "DeleteSourcePartitions",
     "UpdatePartitionMetadata", "Export", "FlashPartitionTable",
     "UpdatePartitionTable"}

TableWritten ==
    /\ Len(trace) > 0
    /\ trace[Len(trace)].fn \in {"FlashPartitionTable", "UpdatePartitionTable"}
    /\ trace[Len(trace)].ret

\* C1 as stated: PreparePartitionsForUpdate(s, s, ...) returns failure for
\* every slot, manifest, value of update and feature-flag configuration.
C1_Original ==
    (IsPrepare /\ call.source_slot = call.target_slot) => ~call.ret

\* C1 amended: PreparePartitionsForUpdate(s, s, ...) returns failure for
\* every slot, manifest and value of update when dynamic partitions are
\* enabled (RETROFIT or LAUNCH); when they are disabled it returns success.
C1_SameSlotRejectedWhenEnabled ==
    (IsPrepare /\ call.source_slot = call.target_slot)
        => (call.ret <=> ~IsEnabled(dynamic_partitions_))

C1_Witness ==
    /\ IsPrepare
    /\ call.source_slot = call.target_slot
    /\ IsEnabled(dynamic_partitions_)
    /\ call.manifest.groups # << >>
    /\ ~call.ret

\* C2: with a non-null required_size, *required_size is nonzero on return
\* only if the call failed because of insufficient space; it is 0 when the
\* call succeeds or fails for another reason, the recovery fallback included.
C2_RequiredSizeOnlyForNoSpace ==
    (IsPrepare /\ call.has_required_size /\ call.required_size # 0)
        => /\ ~call.ret
           /\ trace[Len(trace)].fn = "CreateUpdateSnapshots"
           /\ trace[Len(trace)].ret.error_code = "NO_SPACE"

\* C3: on a Virtual A/B device outside recovery, snapshot-enabled dynamic
\* manifest, update = true: when CreateUpdateSnapshots fails with NO_SPACE
\* and required size R, the call fails and *required_size = R.
C3_NoSpaceReported ==
    (SnapshotAttempt /\ ~kIsRecovery /\ call.has_required_size)
        => \A i \in 1..Len(trace) :
              ( /\ trace[i].fn = "CreateUpdateSnapshots"
                /\ trace[i].ret.error_code = "NO_SPACE" )
                  => /\ ~call.ret
                     /\ call.required_size = trace[i].ret.required_size

C3_Witness ==
    /\ SnapshotAttempt /\ ~kIsRecovery /\ call.has_required_size
    /\ \E i \in 1..Len(trace) :
          /\ trace[i].fn = "CreateUpdateSnapshots"
          /\ trace[i].ret.error_code = "NO_SPACE"
          /\ trace[i].ret.required_size = 10
    /\ call.required_size = 10

\* C4: on a Virtual A/B device outside recovery, snapshot-enabled dynamic
\* manifest, update = true: when BeginUpdate or CreateUpdateSnapshots fails
\* the call fails and makes no call of the legacy path (no unmap, no
\* metadata load, change or export).
C4_NoFallbackOutsideRecovery ==
    (SnapshotAttempt /\ ~kIsRecovery /\ SnapshotPathFailed)
        => /\ ~call.ret
           /\ \A i \in 1..Len(trace) : trace[i].fn \notin LegacyCalls

C4_Witness ==
    /\ SnapshotAttempt /\ ~kIsRecovery
    /\ \E i \in 1..Len(trace) :
          trace[i].fn = "CreateUpdateSnapshots" /\ ~trace[i].ret.ok
    /\ ~call.ret

\* C5 as stated: in recovery, when the snapshot path fails, the call cancels
\* the session, runs the legacy path with delete_source = true and succeeds.
C5_Original ==
    (SnapshotAttempt /\ kIsRecovery /\ SnapshotPathFailed)
        => /\ TraceHas("CancelUpdate")
           /\ call.ret

\* C5 amended: in recovery, when the snapshot path fails, the call goes on
\* to CancelUpdate; if that fails the call fails there; if it succeeds the
\* legacy path runs with delete_source = true (DeleteSourcePartitions
\* follows every successful metadata load) and the call succeeds exactly
\* when that path ends with the table written.
C5_FallbackInRecovery ==
    (SnapshotAttempt /\ kIsRecovery /\ SnapshotPathFailed)
        => LET k == CHOOSE i \in 1..Len(trace) : FailedSnapshotCall(i)
           IN  /\ Len(trace) > k
               /\ trace[k + 1].fn = "CancelUpdate"
               /\ ~trace[k + 1].ret => (~call.ret /\ Len(trace) = k + 1)
               /\ trace[k + 1].ret =>
                     /\ Len(trace) > k + 1
                     /\ trace[k + 2].fn \in {"GetState", "GetDeviceDir"}
               /\ \A i \in 1..Len(trace) :
                     ( /\ trace[i].fn = "MetadataBuilder::NewForUpdate"
                       /\ trace[i].ret # {} )
                         => /\ Len(trace) > i
                            /\ trace[i + 1].fn = "DeleteSourcePartitions"
               /\ call.ret <=> TableWritten

C5_Witness ==
    /\ SnapshotAttempt /\ kIsRecovery /\ SnapshotPathFailed
    /\ TraceHas("CancelUpdate")
    /\ \E i \in 1..Len(trace) :
          trace[i].fn = "DeleteSourcePartitions" /\ trace[i].ret
    /\ call.ret

\* the metadata written to the target slot, as a set
ExportedTables ==
    {trace[i].arg.metadata :
        i \in {j \in 1..Len(trace) :
                  trace[j].fn = "UpdatePartitionTable" /\ trace[j].ret}}

\* C10's scenario: launch device without Virtual A/B, slots 0 -> 1, one
\* group "system_b" of 200 MiB holding "system" of 150 MiB, update = true,
\* a required_size pointer, and every collaborator call succeeding on
\* metadata without groups of the target slot and with room for the group.
C10_Scenario ==
    /\ IsPrepare
    /\ dynamic_partitions_ = "LAUNCH"
    /\ ~IsEnabled(virtual_ab_)
    /\ call.source_slot = 0 /\ call.target_slot = 1
    /\ call.update /\ call.has_required_size
    /\ call.manifest.groups = << Group("system_b", 4, << "system" >>) >>
    /\ call.manifest.partitions[1].partition_name = "system"
    /\ call.manifest.partitions[1].new_size = 3
    /\ \A i \in 1..Len(trace) :
          /\ trace[i].fn \in {"DestroyLogicalPartition", "GetDeviceDir",
                              "Export", "UpdatePartitionTable"}
                => trace[i].ret
          /\ trace[i].fn = "MetadataBuilder::NewForUpdate"
                => \E b \in trace[i].ret :
                      /\ AllocatableSpace(b) \div 2 >= 4
                      /\ \A g \in b.groups : ~EndsWith(g.name, "_b")

\* C10 as stated: the call succeeds, the exported metadata has a group
\* "system_b" holding partition "system_b" of 150 MiB, and req = 0.
C10_Original ==
    C10_Scenario
        => /\ call.ret
           /\ call.required_size = 0
           /\ \E t \in ExportedTables :
                 /\ \E g \in t.groups : g.name = "system_b"
                 /\ \E p \in t.partitions :
                       /\ p.name = "system_b"
                       /\ p.group_name = "system_b"
                       /\ p.size = 3

\* C10 amended: when every collaborator call succeeds and half the
\* allocatable space holds the group, the call succeeds, req = 0, and the
\* exported metadata has a group "system_b_b" (the manifest's group name
\* with the target suffix) of 200 MiB holding partition "system_b" of
\* 150 MiB.
C10_EndToEnd ==
    C10_Scenario
        => /\ call.ret
           /\ call.required_size = 0
           /\ \E t \in ExportedTables :
                 /\ [name |-> "system_b_b", maximum_size |-> 4] \in t.groups
                 /\ \E p \in t.partitions :
                       /\ p.name = "system_b"
                       /\ p.group_name = "system_b_b"
                       /\ p.size = 3

C10_Witness ==
    /\ C10_Scenario
    /\ call.ret
    /\ ExportedTables # {}

----------------------------------------------------------------------------
(* Properties of UpdatePartitionMetadata *)

IsUpm == call.op = "UpdatePartitionMetadata"

\* the sum of the declared group sizes as a number
RECURSIVE SumOfGroupSizes(_, _)
SumOfGroupSizes(groups, i) ==
    IF i > Len(groups) THEN 0
    ELSE groups[i].size + SumOfGroupSizes(groups, i + 1)

\* the table of the call without the COW group and the target slot's groups
WithoutStaleGroups(builder, target_slot) ==
    LET stale(name) ==
            \/ name = "cow"
            \/ EndsWith(name, SlotSuffixForSlotNumber(target_slot))
    IN  [groups |-> {g \in builder.groups : ~stale(g.name)},
         partitions |-> {p \in builder.partitions : ~stale(p.group_name)},
         allocatable |-> builder.allocatable]

\* C6: UpdatePartitionMetadata fails whenever the sum of the manifest's
\* group sizes exceeds the budget, and then adds no group or partition.
C6_OverBudgetRejected ==
    ( /\ IsUpm
      /\ SumOfGroupSizes(call.manifest.groups, 1)
            > call.result.allocatable_space )
        => /\ ~call.result.ret
           /\ call.result.builder.groups \subseteq call.builder.groups
           /\ call.result.builder.partitions \subseteq call.builder.partitions

\* C7 as stated: when the call fails on the budget the table is exactly as
\* before the call.
C7_Original ==
    (IsUpm /\ call.result.step = "budget")
        => call.result.builder = call.builder

\* C7 amended: when the call fails on the budget nothing was added and every
\* group and partition outside the COW group and the target slot's groups
\* is still there with its size; the COW group and the groups that carried
\* the target suffix have been removed with their partitions.
C7_BudgetFailureLeavesSourceGroups ==
    (IsUpm /\ call.result.step = "budget")
        => /\ ~call.result.ret
           /\ call.result.builder =
                  WithoutStaleGroups(call.builder, call.target_slot)

C7_Witness ==
    /\ IsUpm
    /\ call.result.step = "budget"
    /\ \E g \in call.builder.groups : g.name = "cow"
    /\ \E g \in call.builder.groups :
          EndsWith(g.name, SlotSuffixForSlotNumber(call.target_slot))
    /\ call.result.builder.groups # {}

\* C8: the budget is the builder's full AllocatableSpace() when the
\* dynamic-partitions flag is RETROFIT and exactly half of it when LAUNCH.
C8_BudgetByFlag ==
    IsUpm
        => /\ dynamic_partitions_ = "RETROFIT"
                => call.result.allocatable_space
                       = AllocatableSpace(call.builder)
           /\ dynamic_partitions_ = "LAUNCH"
                => 2 * call.result.allocatable_space
                       = AllocatableSpace(call.builder)

C8_Witness ==
    /\ IsUpm
    /\ dynamic_partitions_ = "LAUNCH"
    /\ AllocatableSpace(call.builder) = 8
    /\ call.result.allocatable_space = 4
    /\ call.result.total_size = 4
    /\ call.result.ret

\* some group lists a partition name that manifest.partitions() lacks
ListsUnknownPartition(manifest) ==
    \E i \in 1..Len(manifest.groups) :
        \E j \in 1..Len(manifest.groups[i].partition_names) :
            \A k \in 1..Len(manifest.partitions) :
                manifest.partitions[k].partition_name
                    # manifest.groups[i].partition_names[j]

\* C9: for every manifest in which a group lists a partition name absent
\* from manifest.partitions(), UpdatePartitionMetadata returns failure.
C9_UnknownPartitionRejected ==
    (IsUpm /\ ListsUnknownPartition(call.manifest)) => ~call.result.ret

C9_Witness ==
    /\ IsUpm
    /\ ListsUnknownPartition(call.manifest)
    /\ call.result.step = "not_in_manifest"
    /\ ~call.result.ret

\* Consequence of C9 for the legacy path of PreparePartitionsForUpdate: the
\* call fails and writes no metadata.
C9_LegacyPathFails ==
    (IsPrepare /\ ListsUnknownPartition(call.manifest)
               /\ TraceHas("UpdatePartitionMetadata"))
        => /\ ~call.ret
           /\ ~TraceHas("Export")
           /\ ~TraceHas("FlashPartitionTable")
           /\ ~TraceHas("UpdatePartitionTable")

\* C11: when UpdatePartitionMetadata succeeds for target slot t, the table
\* holds, for every manifest group G, a group G.name + suffix(t) of maximum
\* size G.size and, for every partition name p listed in G, a read-only
\* partition p + suffix(t) in that group whose size is the new size the
\* manifest gives for p; no other group with suffix(t) and no group of the
\* copy-on-write bookkeeping is left.
C11_SuccessBuildsTargetGroups ==
    (IsUpm /\ call.result.ret) =>
        LET b == call.result.builder
            m == call.manifest
            sfx == SlotSuffixForSlotNumber(call.target_slot)
        IN  /\ \A i \in 1..Len(m.groups) :
                 \E g \in b.groups :
                    /\ g.name = m.groups[i].name \o sfx
                    /\ g.maximum_size = m.groups[i].size
                    /\ \A j \in 1..Len(m.groups[i].partition_names) :
                         LET pn == m.groups[i].partition_names[j]
                         IN  \E p \in b.partitions :
                                /\ p.name = pn \o sfx
                                /\ p.group_name = g.name
                                /\ "READONLY" \in p.attributes
                                /\ HasPartitionSize(m, pn)
                                /\ p.size = PartitionSize(m, pn)
            /\ \A g \in b.groups :
                 EndsWith(g.name, sfx) =>
                    \E i \in 1..Len(m.groups) :
                       g.name = m.groups[i].name \o sfx
            /\ FindGroup(b, kCowGroupName) = {}

\* a successful call with two groups on a table that held a group of the
\* target slot and the copy-on-write group
C11_Witness ==
    /\ IsUpm
    /\ call.result.ret
    /\ Len(call.manifest.groups) = 2
    /\ FindGroup(call.builder, kCowGroupName) # {}
    /\ \E g \in call.builder.groups :
          EndsWith(g.name, SlotSuffixForSlotNumber(call.target_slot))

----------------------------------------------------------------------------
(* Properties of a controller in use *)

IsUnmap == call.op = "UnmapPartitionOnDeviceMapper"
IsCleanup == call.op = "Cleanup"

\* the operation asked device mapper (or the snapshot layer) to tear down
DestroyIssued ==
    TraceHas("DestroyLogicalPartition") \/ TraceHas("UnmapUpdateSnapshot")

\* C12 as stated: unmapping a partition that is not in MappedDeviceSet
\* returns success, issues no destroy call and leaves MappedDeviceSet
\* unchanged.
C12_Original ==
    (IsUnmap /\ call.target_partition_name \notin call.mapped_before) =>
        /\ call.ret
        /\ ~DestroyIssued
        /\ mapped_devices_ = call.mapped_before

\* C12: when device mapper reports no device of that name (state INVALID),
\* UnmapPartitionOnDeviceMapper returns success and issues no destroy call;
\* MappedDeviceSet loses the name if it held it and is otherwise unchanged.
C12_UnmapOfAbsentDevice ==
    (IsUnmap /\ trace[1].ret = "INVALID") =>
        /\ call.ret
        /\ ~DestroyIssued
        /\ mapped_devices_ =
               call.mapped_before \ {call.target_partition_name}

\* an unmap of a name outside a non-empty MappedDeviceSet, with no device
C12_Witness ==
    /\ IsUnmap
    /\ trace[1].ret = "INVALID"
    /\ call.mapped_before # {}
    /\ call.target_partition_name \notin call.mapped_before
    /\ mapped_devices_ = call.mapped_before

\* C13: after Cleanup() returns, MappedDeviceSet is empty and the
\* metadata-device handle is released, whatever the unmaps returned.
C13_CleanupEmptiesMappedDevices ==
    IsCleanup => (mapped_devices_ = {} /\ ~metadata_device_)

\* the part of C13 the code keeps: the handle is released, and the names
\* left in MappedDeviceSet are those whose unmap failed
C13_HandleReleased ==
    IsCleanup =>
        /\ ~metadata_device_
        /\ \A n \in mapped_devices_ :
              /\ n \in call.mapped_before
              /\ \E i \in 1..Len(trace) :
                    /\ trace[i].arg = n
                    /\ trace[i].fn \in {"DestroyLogicalPartition",
                                        "UnmapUpdateSnapshot"}
                    /\ ~trace[i].ret

\* C14: Cleanup() attempts to unmap every name that was in MappedDeviceSet
\* when it was called, going on after a failed unmap, and reports no
\* failure.
C14_CleanupTriesEveryDevice ==
    IsCleanup =>
        /\ call.ret
        /\ \A n \in call.mapped_before :
              \E i \in 1..Len(trace) :
                 trace[i].fn = "GetState" /\ trace[i].arg = n

\* a Cleanup of two devices where the first could not be destroyed
C14_Witness ==
    /\ IsCleanup
    /\ call.mapped_before = {"system_a", "system_b"}
    /\ \E i \in 1..Len(trace) :
          /\ trace[i].fn = "DestroyLogicalPartition"
          /\ trace[i].arg = "system_a"
          /\ ~trace[i].ret
    /\ \E i \in 1..Len(trace) :
          trace[i].fn = "GetState" /\ trace[i].arg = "system_b"

IsFinishUpdate == call.op = "FinishUpdate"
IsOptimize == call.op = "OptimizeOperation"
IsGetPartitionDevice == call.op = "GetPartitionDevice"

\* the result of the FinishedSnapshotWrites call in the trace
FinishedSnapshotWritesResult ==
    LET i == CHOOSE k \in 1..Len(trace) :
                 trace[k].fn = "FinishedSnapshotWrites"
    IN  trace[i].ret

\* C15: FinishUpdate() calls FinishedSnapshotWrites, and returns its
\* result, exactly when Virtual A/B is enabled and the update state is
\* Initiated; otherwise it returns success and signals nothing.  After a
\* PreparePartitionsForUpdate that cancelled the session and took the
\* legacy path it does not call FinishedSnapshotWrites.
C15_FinishSignalsWhenInitiated ==
    IsFinishUpdate =>
        /\ TraceHas("FinishedSnapshotWrites") <=>
               (virtual_ab_ # "NONE" /\ call.state_before = "Initiated")
        /\ TraceHas("FinishedSnapshotWrites") =>
               call.ret = FinishedSnapshotWritesResult
        /\ ~TraceHas("FinishedSnapshotWrites") =>
               /\ call.ret
               /\ \A i \in 1..Len(trace) : trace[i].fn = "GetUpdateState"
        /\ LastPrepared.cancelled => ~TraceHas("FinishedSnapshotWrites")

\* FinishUpdate on a Virtual A/B device whose last preparation cancelled
\* the snapshot session
C15_Witness ==
    /\ IsFinishUpdate
    /\ virtual_ab_ # "NONE"
    /\ LastPrepared.cancelled
    /\ TraceHas("GetUpdateState")
    /\ call.ret

\* C16: OptimizeOperation returns true only if the operation is a
\* SOURCE_COPY, Virtual A/B is enabled, the manifest of the last
\* preparation enabled snapshots, partition_name + suffix(target_slot) is
\* in MappedDeviceSet and the snapshot layer's optimization succeeds.
C16_SkipOnlyWithSnapshots ==
    (IsOptimize /\ call.ret) =>
        /\ call.type = "SOURCE_COPY"
        /\ virtual_ab_ # "NONE"
        /\ LastPrepared.done
        /\ LastPrepared.snapshot_enabled
        /\ (call.partition_name \o SlotSuffixForSlotNumber(target_slot_))
               \in call.mapped_before
        /\ \E i \in 1..Len(trace) :
              trace[i].fn = "OptimizeSourceCopyOperation" /\ trace[i].ret

\* what the code keeps of C16: the same with the stored
\* target_supports_snapshot_ in place of the last manifest's flag, and
\* false in every other case
C16_SkipOnlyWithStoredFlag ==
    IsOptimize =>
        (call.ret <=>
            /\ call.type = "SOURCE_COPY"
            /\ virtual_ab_ # "NONE"
            /\ target_supports_snapshot_
            /\ (call.partition_name \o SlotSuffixForSlotNumber(target_slot_))
                   \in call.mapped_before
            /\ \E i \in 1..Len(trace) :
                  trace[i].fn = "OptimizeSourceCopyOperation" /\ trace[i].ret)

\* the map requests in the trace
MapRequests ==
    {i \in 1..Len(trace) :
        trace[i].fn \in {"CreateLogicalPartition", "MapUpdateSnapshot"}}

\* C20: every map request GetPartitionDevice issues has force_writable true
\* exactly when the requested slot differs from current_slot.
C20_WritableOnlyOtherSlot ==
    IsGetPartitionDevice =>
        \A i \in MapRequests :
           /\ trace[i].arg.force_writable = (call.slot # call.current_slot)
           /\ trace[i].arg.metadata_slot = call.slot

\* a lookup in the other slot that mapped the partition writable
C20_Witness ==
    /\ IsGetPartitionDevice
    /\ call.slot # call.current_slot
    /\ call.ret
    /\ \E i \in MapRequests : trace[i].arg.force_writable

----------------------------------------------------------------------------
(* Paths of PreparePartitionsForUpdate that leave the device alone *)

SnapshotLayerCalls ==
    {"EnsureMetadataMounted", "BeginUpdate", "CreateUpdateSnapshots",
     "CancelUpdate", "UnmapUpdateSnapshot", "MapUpdateSnapshot"}

DeviceMapperCalls ==
    {"GetState", "DestroyLogicalPartition", "CreateLogicalPartition"}

MetadataCalls ==
    {"MetadataBuilder::New", "MetadataBuilder::NewForUpdate", "Export",
     "FlashPartitionTable", "UpdatePartitionTable"}

TraceHasAnyOf(fns) == \E i \in 1..Len(trace) : trace[i].fn \in fns

\* C17: with dynamic partitions disabled, PreparePartitionsForUpdate
\* returns success for any arguments, makes no snapshot-layer call, no
\* device-mapper map or unmap and no metadata load or export, and leaves
\* MappedDeviceSet as it was.
C17_DisabledDoesNothing ==
    (IsPrepare /\ dynamic_partitions_ = "NONE") =>
        /\ call.ret
        /\ ~TraceHasAnyOf(SnapshotLayerCalls \cup DeviceMapperCalls
                            \cup MetadataCalls)
        /\ trace = << >>
        /\ mapped_devices_ = {}

\* a call for writing with a dynamic manifest, even onto the same slot, on
\* a Virtual A/B build without dynamic partitions
C17_Witness ==
    /\ IsPrepare
    /\ dynamic_partitions_ = "NONE"
    /\ virtual_ab_ # "NONE"
    /\ call.update
    /\ call.manifest.groups # << >>
    /\ call.source_slot = call.target_slot
    /\ call.ret

\* C18: with dynamic partitions enabled, differing slots and a manifest
\* without partition groups, PreparePartitionsForUpdate returns success
\* without any snapshot-layer call (not even the metadata mount), without
\* unmapping a device and without loading or exporting metadata.
C18_StaticPayloadDoesNothing ==
    (/\ IsPrepare
     /\ dynamic_partitions_ # "NONE"
     /\ call.source_slot # call.target_slot
     /\ call.manifest.groups = << >>) =>
        /\ call.ret
        /\ ~TraceHasAnyOf(SnapshotLayerCalls \cup DeviceMapperCalls
                            \cup MetadataCalls)
        /\ trace = << >>

\* such a call for writing on a Virtual A/B device
C18_Witness ==
    /\ IsPrepare
    /\ dynamic_partitions_ # "NONE"
    /\ virtual_ab_ # "NONE"
    /\ call.source_slot # call.target_slot
    /\ call.manifest.groups = << >>
    /\ call.update
    /\ call.ret
    /\ ~is_target_dynamic_

\* the calls a verification-only pass must not make
WriteCalls ==
    {"BeginUpdate", "CancelUpdate", "CreateUpdateSnapshots", "GetState",
     "DestroyLogicalPartition", "UnmapUpdateSnapshot", "Export",
     "FlashPartitionTable", "UpdatePartitionTable"}

MountedOnly ==
    /\ Len(trace) = 1
    /\ trace[1].fn = "EnsureMetadataMounted"
    /\ call.ret = trace[1].ret

\* C19 as stated: with update=false the call never begins or cancels a
\* session, creates snapshots, unmaps or writes metadata; on a Virtual A/B
\* device with a dynamic manifest its only collaborator call is
\* EnsureMetadataMounted and it fails exactly when the mount fails.
C19_Original ==
    (IsPrepare /\ ~call.update) =>
        /\ ~TraceHasAnyOf(WriteCalls)
        /\ (virtual_ab_ # "NONE" /\ call.manifest.groups # << >>) =>
               MountedOnly

\* C19: the same, the second part for a device with dynamic partitions
\* enabled and differing source and target slots.
C19_VerifyOnlyMountsMetadata ==
    (IsPrepare /\ ~call.update) =>
        /\ ~TraceHasAnyOf(WriteCalls)
        /\ (/\ virtual_ab_ # "NONE"
            /\ call.manifest.groups # << >>
            /\ dynamic_partitions_ # "NONE"
            /\ call.source_slot # call.target_slot) =>
               MountedOnly

\* a verification-only pass whose metadata mount failed
C19_Witness ==
    /\ IsPrepare
    /\ ~call.update
    /\ virtual_ab_ # "NONE"
    /\ dynamic_partitions_ # "NONE"
    /\ call.manifest.groups # << >>
    /\ call.source_slot # call.target_slot
    /\ MountedOnly
    /\ ~call.ret

----------------------------------------------------------------------------
(* Properties of GetPartitionDevice *)

\* C21: a map attempt makes exactly one map call: MapUpdateSnapshot exactly
\* when Virtual A/B is enabled, the last prepared manifest enabled
\* snapshots and the mapping is writable; CreateLogicalPartition otherwise.
C21_SnapshotMapByLastManifest ==
    IsGetPartitionDevice =>
        /\ Cardinality(MapRequests) <= 1
        /\ \A i \in MapRequests :
              (trace[i].fn = "MapUpdateSnapshot") <=>
                  /\ virtual_ab_ # "NONE"
                  /\ LastPrepared.done
                  /\ LastPrepared.snapshot_enabled
                  /\ trace[i].arg.force_writable

\* what the code keeps of C21: the choice follows the stored
\* target_supports_snapshot_
C21_SnapshotMapByStoredFlag ==
    IsGetPartitionDevice =>
        /\ Cardinality(MapRequests) <= 1
        /\ \A i \in MapRequests :
              (trace[i].fn = "MapUpdateSnapshot") <=>
                  /\ virtual_ab_ # "NONE"
                  /\ target_supports_snapshot_
                  /\ trace[i].arg.force_writable

\* what the trace of a GetPartitionDevice call tells about its path
DeviceDirFound ==
    Len(trace) >= 1 /\ trace[1].fn = "GetDeviceDir" /\ trace[1].ret

MetadataLoads == {i \in 1..Len(trace) : trace[i].fn = "MetadataBuilder::New"}

\* the table of the requested slot: the first one loaded
RequestedLoad == CHOOSE i \in MetadataLoads : \A j \in MetadataLoads : i <= j

RequestedName == call.partition_name \o SlotSuffixForSlotNumber(call.slot)

PresentInMetadata ==
    /\ MetadataLoads # {}
    /\ \E b \in trace[RequestedLoad].ret : FindPartition(b, RequestedName) # {}

AbsentFromMetadata ==
    /\ MetadataLoads # {}
    /\ \E b \in trace[RequestedLoad].ret : FindPartition(b, RequestedName) = {}

\* the current slot's metadata was loaded and lists the name as a block
\* device
IsBlockDeviceOfCurrentSlot ==
    \E i \in 1..Len(trace) :
       /\ trace[i].fn = "HasBlockDevice"
       /\ ~trace[i].arg.null
       /\ trace[i].ret

\* the current slot's metadata could not be loaded for that check
CurrentMetadataMissing ==
    \E i \in 1..Len(trace) :
       trace[i].fn = "HasBlockDevice" /\ trace[i].arg.null

StaticLookup == TraceHas("DeviceExists")

StaticLookupResult ==
    LET i == CHOOSE k \in 1..Len(trace) : trace[k].fn = "DeviceExists"
    IN  trace[i].ret

StaticCases ==
    \/ dynamic_partitions_ = "NONE"
    \/ (call.slot # call.current_slot /\ ~is_target_dynamic_)
    \/ (AbsentFromMetadata /\ ~IsBlockDeviceOfCurrentSlot)

\* C22: GetPartitionDevice (its device directory found) uses the static
\* device path exactly when dynamic partitions are disabled, or slot differs
\* from current_slot and the prepared target is not dynamic, or the
\* partition is absent from the requested slot's metadata and is not a block
\* device of the current slot's metadata; the static case fails iff the path
\* does not exist; an absent partition that is a block device of the
\* current slot's metadata fails without static lookup.
C22_StaticPathCases ==
    (IsGetPartitionDevice /\ DeviceDirFound) =>
        /\ StaticLookup <=> StaticCases
        /\ StaticLookup => (call.ret = StaticLookupResult)
        /\ (AbsentFromMetadata /\ IsBlockDeviceOfCurrentSlot) =>
               (~call.ret /\ ~StaticLookup)

\* what the code keeps of C22: the same whenever the current slot's
\* metadata could be loaded for the block-device check
C22_StaticPathCasesWhenLoaded ==
    (IsGetPartitionDevice /\ DeviceDirFound /\ ~CurrentMetadataMissing) =>
        /\ StaticLookup <=> StaticCases
        /\ StaticLookup => (call.ret = StaticLookupResult)
        /\ (AbsentFromMetadata /\ IsBlockDeviceOfCurrentSlot) =>
               (~call.ret /\ ~StaticLookup)

\* the first device-mapper state a GetPartitionDevice call read
StateReads == {i \in 1..Len(trace) : trace[i].fn = "GetState"}
FirstStateRead == CHOOSE i \in StateReads : \A j \in StateReads : i <= j

ActiveAtLookup == StateReads # {} /\ trace[FirstStateRead].ret = "ACTIVE"

DevicePathResult ==
    LET i == CHOOSE k \in 1..Len(trace) :
                 trace[k].fn = "GetDmDevicePathByName"
    IN  trace[i].ret

\* C23: for a partition of the currently-running slot that is present in
\* the metadata and whose device-mapper state is ACTIVE, GetPartitionDevice
\* returns the existing path (failing if it cannot be resolved), makes no
\* map or unmap call and leaves MappedDeviceSet unchanged; it maps only
\* when no mapping is active or the request targets the other slot.
C23_ActiveCurrentSlotReused ==
    IsGetPartitionDevice =>
        /\ (/\ call.slot = call.current_slot
            /\ PresentInMetadata
            /\ ActiveAtLookup) =>
               /\ TraceHas("GetDmDevicePathByName")
               /\ call.ret = DevicePathResult
               /\ MapRequests = {}
               /\ ~DestroyIssued
               /\ mapped_devices_ = call.mapped_before
        /\ MapRequests # {} =>
               (call.slot # call.current_slot \/ ~ActiveAtLookup)

\* such a lookup, of a device the controller did not map itself, while it
\* holds another mapping
C23_Witness ==
    /\ IsGetPartitionDevice
    /\ call.slot = call.current_slot
    /\ PresentInMetadata
    /\ ActiveAtLookup
    /\ call.ret
    /\ call.mapped_before # {}
    /\ RequestedName \notin call.mapped_before


----------------------------------------------------------------------------
(* Properties of the helpers *)

IsGetFeatureFlag == call.op = "GetFeatureFlag"
IsDeleteSource == call.op = "DeleteSourcePartitions"

\* C24: a feature flag is RETROFIT iff the retrofit property is true
\* (whatever the enabled property says), LAUNCH iff enabled is true and
\* retrofit is false, NONE iff both are false; RETROFIT and LAUNCH both
\* report IsEnabled, and the inconsistent pair (retrofit true, enabled
\* false) yields an enabled flag.
C24_FlagFromProperties ==
    /\ IsEnabled("RETROFIT") /\ IsEnabled("LAUNCH") /\ ~IsEnabled("NONE")
    /\ IsGetFeatureFlag =>
        /\ call.flag \in {"NONE", "RETROFIT", "LAUNCH"}
        /\ (call.flag = "RETROFIT") <=> call.retrofit
        /\ (call.flag = "LAUNCH") <=> (call.enabled /\ ~call.retrofit)
        /\ (call.flag = "NONE") <=> (~call.enabled /\ ~call.retrofit)
        /\ (call.retrofit /\ ~call.enabled) => IsEnabled(call.flag)

\* the inconsistent pair was read
C24_Witness ==
    /\ IsGetFeatureFlag
    /\ call.retrofit
    /\ ~call.enabled
    /\ call.flag = "RETROFIT"

ManifestHasOldInfo ==
    \E i \in 1..Len(call.manifest.partitions) :
        call.manifest.partitions[i].has_old

SourceGroups ==
    {g \in call.builder.groups :
        EndsWith(g.name, SlotSuffixForSlotNumber(call.source_slot))}

\* C25: DeleteSourcePartitions fails for every manifest in which a
\* partition carries old_partition_info, and whenever the controller does
\* not run in recovery; in both cases the table keeps all its groups and
\* partitions.
C25_DeleteSourceRefusals ==
    (IsDeleteSource /\ (ManifestHasOldInfo \/ ~kIsRecovery)) =>
        /\ ~call.result.ok
        /\ call.result.builder = call.builder

\* an incremental payload in recovery, on a table that has groups of the
\* source slot to delete
C25_Witness ==
    /\ IsDeleteSource
    /\ kIsRecovery
    /\ ManifestHasOldInfo
    /\ SourceGroups # {}
    /\ ~call.result.ok

\* the call deletes the source groups when it does not refuse
C25_DeletesOtherwise ==
    /\ IsDeleteSource
    /\ call.result.ok
    /\ SourceGroups # {}
    /\ call.result.builder # call.builder


----------------------------------------------------------------------------
(* Order of the steps inside one PreparePartitionsForUpdate call *)

Calls(fn) == {i \in 1..Len(trace) : trace[i].fn = fn}
CallsIn(fns) == {i \in 1..Len(trace) : trace[i].fn \in fns}

\* C26: on a Virtual A/B device the legacy metadata path of
\* PreparePartitionsForUpdate runs only after a CancelUpdate that returned
\* success in the same call, that CancelUpdate comes after any BeginUpdate
\* of the call, and when CancelUpdate fails the call fails without
\* unmapping a target partition or touching metadata.
C26_LegacyOnlyAfterCancel ==
    (IsPrepare /\ IsEnabled(virtual_ab_)) =>
        /\ \A i \in CallsIn(LegacyCalls) :
              \E j \in Calls("CancelUpdate") : j < i /\ trace[j].ret
        /\ \A j \in Calls("CancelUpdate") :
              \A b \in Calls("BeginUpdate") : b < j
        /\ (\E j \in Calls("CancelUpdate") : ~trace[j].ret) =>
              /\ ~call.ret
              /\ CallsIn(LegacyCalls) = {}

\* a failed snapshot attempt in recovery, cancelled, and the legacy path
\* carried through
C26_Witness ==
    /\ IsPrepare
    /\ IsEnabled(virtual_ab_)
    /\ Calls("BeginUpdate") # {}
    /\ \E j \in Calls("CancelUpdate") : trace[j].ret
    /\ TableWritten
    /\ call.ret

SnapshotsCreated ==
    \E i \in Calls("CreateUpdateSnapshots") : trace[i].ret.ok

\* C28: one PreparePartitionsForUpdate call does not complete both paths:
\* when the snapshot path succeeds the call returns success without
\* CancelUpdate, without unmapping a target partition and without loading
\* or exporting metadata; metadata is exported only in a call in which no
\* snapshot creation succeeded.
C28_OnePathPerCall ==
    IsPrepare =>
        /\ SnapshotsCreated =>
              /\ call.ret
              /\ Calls("CancelUpdate") = {}
              /\ CallsIn(LegacyCalls) = {}
        /\ Calls("Export") # {} => ~SnapshotsCreated

\* the snapshot path succeeding in recovery, where a fallback exists
C28_Witness ==
    /\ IsPrepare
    /\ kIsRecovery
    /\ SnapshotsCreated
    /\ call.ret

TargetNames ==
    LET names == GroupPartitionNames(call.manifest.groups, 1)
    IN  {names[k] \o SlotSuffixForSlotNumber(call.target_slot) :
            k \in 1..Len(names)}

FailedUnmaps ==
    {i \in CallsIn({"DestroyLogicalPartition", "UnmapUpdateSnapshot"}) :
        ~trace[i].ret}

TableCalls ==
    {"MetadataBuilder::NewForUpdate", "DeleteSourcePartitions",
     "UpdatePartitionMetadata", "Export", "FlashPartitionTable",
     "UpdatePartitionTable"}

\* C29: in the legacy path every partition name of the manifest's groups
\* is unmapped with the target suffix before the metadata is loaded, and
\* when one of these unmaps fails the call returns failure without loading,
\* modifying or exporting metadata.
C29_UnmapBeforeLoad ==
    IsPrepare =>
        /\ \A l \in Calls("MetadataBuilder::NewForUpdate") :
              \A n \in TargetNames :
                 \E i \in Calls("GetState") : i < l /\ trace[i].arg = n
        /\ FailedUnmaps # {} =>
              /\ ~call.ret
              /\ CallsIn(TableCalls) = {}

\* two partitions: the first was unmapped, the unmap of the second failed
C29_Witness ==
    /\ IsPrepare
    /\ Cardinality(TargetNames) = 2
    /\ Cardinality(Calls("GetState")) = 2
    /\ FailedUnmaps # {}
    /\ ~call.ret

\* both partitions unmapped and the metadata loaded
C29_LoadedAfterUnmaps ==
    /\ IsPrepare
    /\ Cardinality(TargetNames) = 2
    /\ Calls("MetadataBuilder::NewForUpdate") # {}

StorageWrites == {"Export", "FlashPartitionTable", "UpdatePartitionTable"}

FailedTableSteps ==
    {i \in Calls("UpdatePartitionMetadata") : ~trace[i].ret.ret}
    \cup {i \in Calls("DeleteSourcePartitions") : ~trace[i].ret}

\* C30: metadata is exported only after the source-group deletion, when
\* there is one, and UpdatePartitionMetadata have both succeeded on the
\* table loaded in this call, and it is the table they produced; when the
\* construction of the table fails at any step nothing is written to the
\* super partition and PreparePartitionsForUpdate returns failure.
C30_ExportOnlyBuiltTable ==
    IsPrepare =>
        /\ \A e \in CallsIn(StorageWrites) :
              /\ \E l \in Calls("MetadataBuilder::NewForUpdate") :
                 \E u \in Calls("UpdatePartitionMetadata") :
                    /\ l < u /\ u < e
                    /\ trace[l].ret # {}
                    /\ trace[u].ret.ret
                    /\ (Calls("DeleteSourcePartitions") = {}
                            => {trace[u].arg} = trace[l].ret)
                    /\ trace[e].fn = "Export"
                            => trace[e].arg = trace[u].ret.builder
              /\ \A d \in Calls("DeleteSourcePartitions") :
                    d < e /\ trace[d].ret
        /\ FailedTableSteps # {} =>
              /\ ~call.ret
              /\ CallsIn(StorageWrites) = {}

UpmFailedAt(step) ==
    \E i \in Calls("UpdatePartitionMetadata") :
        ~trace[i].ret.ret /\ trace[i].ret.step = step

\* the table could not be built: a partition of a group has no size in
\* the manifest
C30_Witness ==
    /\ IsPrepare
    /\ UpmFailedAt("not_in_manifest")
    /\ ~call.ret


----------------------------------------------------------------------------
(* UnmapUpdateSnapshot and the reset of the snapshot update state *)

ResetCalls == {"BeginUpdate", "CancelUpdate"}

\* BeginUpdate or CancelUpdate was called in an earlier operation
ResetEarlier ==
    IF IsPrepare THEN call.reset_before ELSE LastPrepared.reset

UnresetUnmaps ==
    {i \in Calls("UnmapUpdateSnapshot") :
        /\ ~ResetEarlier
        /\ \A j \in CallsIn(ResetCalls) : j > i}

\* C27: on a Virtual A/B device, in every sequence of
\* PreparePartitionsForUpdate, GetPartitionDevice and Cleanup calls, each
\* UnmapUpdateSnapshot call is preceded by a BeginUpdate or CancelUpdate
\* call made by the controller.
C27_UnmapSnapshotAfterReset ==
    (IsEnabled(virtual_ab_) /\ (IsPrepare \/ IsGetPartitionDevice \/ IsCleanup))
        => UnresetUnmaps = {}

\* Within one PreparePartitionsForUpdate call on a Virtual A/B device,
\* each UnmapUpdateSnapshot call comes after a BeginUpdate or CancelUpdate
\* call of the same call.
C27_ResetWithinPrepare ==
    (IsEnabled(virtual_ab_) /\ IsPrepare) =>
        \A i \in Calls("UnmapUpdateSnapshot") :
            \E j \in CallsIn(ResetCalls) : j < i


----------------------------------------------------------------------------
(* Properties of MapPartitionOnDeviceMapper, reached through               *)
(* GetPartitionDevice                                                      *)

\* the state read that opens MapPartitionOnDeviceMapper: the first of the
\* call for the other slot, the second for the current slot
\* the position of the n-th state read from position i on, 0 if none
RECURSIVE StateReadFrom(_, _)
StateReadFrom(i, n) ==
    IF i > Len(trace) THEN 0
    ELSE IF trace[i].fn # "GetState" THEN StateReadFrom(i + 1, n)
    ELSE IF n = 1 THEN i
    ELSE StateReadFrom(i + 1, n - 1)

MapperRead ==
    StateReadFrom(1, IF call.slot = call.current_slot THEN 2 ELSE 1)

MapperReads == IF MapperRead = 0 THEN {} ELSE {MapperRead}

MapperEntered == IsGetPartitionDevice /\ MapperRead # 0

\* found ACTIVE by MapPartitionOnDeviceMapper without being in
\* mapped_devices_
StrayDevice ==
    /\ MapperEntered
    /\ trace[MapperRead].ret = "ACTIVE"
    /\ RequestedName \notin call.mapped_before

LastEntry == trace[Len(trace)]

MapSucceeded == Len(trace) > 0 /\ Len(trace) \in MapRequests /\ LastEntry.ret

\* the last state read before trace position i, "" if none
RECURSIVE LastStateBefore(_)
LastStateBefore(i) ==
    IF i <= 1 THEN ""
    ELSE IF trace[i - 1].fn = "GetState" THEN trace[i - 1].ret
    ELSE LastStateBefore(i - 1)

\* C31 as stated: a partition found ACTIVE in device mapper that is not in
\* MappedDeviceSet makes the call fail without a device path.
C31_Original == StrayDevice => ~call.ret

\* C31 amended: a partition found ACTIVE in device mapper that is not in
\* MappedDeviceSet is unmapped first; the call fails when that unmap fails
\* or the state read after it is not INVALID, and otherwise maps the
\* partition anew and returns what that map call returned.
C31_StrayDeviceUnmappedFirst ==
    StrayDevice =>
        /\ Len(trace) > MapperRead
        /\ trace[MapperRead + 1].fn = "GetState"
        /\ FailedUnmaps # {} => (~call.ret /\ MapRequests = {})
        /\ MapRequests = {} => ~call.ret
        /\ MapRequests # {} =>
              /\ FailedUnmaps = {}
              /\ Cardinality({j \in StateReads : j > MapperRead}) = 2
              /\ \A m \in MapRequests : LastStateBefore(m) = "INVALID"
              /\ call.ret = LastEntry.ret

\* the stray device was destroyed and mapped anew
C31_Witness ==
    /\ StrayDevice
    /\ \E i \in Calls("DestroyLogicalPartition") : trace[i].ret
    /\ MapSucceeded
    /\ call.ret


\* C32: a map-create call is issued for a name only when the device-mapper
\* state last read for that name is INVALID.  For an ACTIVE name in
\* MappedDeviceSet the existing path is returned without creating; for an
\* ACTIVE name not in the set the device is unmapped, the state is read
\* again and the call fails unless it is then INVALID; for a state that is
\* neither ACTIVE nor INVALID the call fails without mapping.
C32_MapOnlyWhenInvalid ==
    IsGetPartitionDevice =>
        /\ \A m \in MapRequests :
              /\ LastStateBefore(m) = "INVALID"
              /\ \A j \in StateReads : trace[j].arg = trace[m].arg.partition_name
        /\ MapperEntered =>
              /\ (/\ trace[MapperRead].ret = "ACTIVE"
                  /\ RequestedName \in call.mapped_before) =>
                     /\ MapRequests = {}
                     /\ ~DestroyIssued
                     /\ LastEntry.fn = "GetDmDevicePathByName"
                     /\ call.ret = LastEntry.ret
              /\ StrayDevice =>
                     /\ Len(trace) > MapperRead
                     /\ trace[MapperRead + 1].fn = "GetState"
                     /\ call.ret => LastStateBefore(Len(trace)) = "INVALID"
                     /\ call.ret => Len(trace) \in MapRequests
              /\ trace[MapperRead].ret = "SUSPENDED" =>
                     /\ ~call.ret
                     /\ MapRequests = {}
                     /\ Len(trace) = MapperRead

\* a stray device whose unmap succeeded but which is still there when the
\* state is read again: nothing is created
C32_Witness ==
    /\ StrayDevice
    /\ FailedUnmaps = {}
    /\ Cardinality({j \in StateReads : j > MapperRead}) = 2
    /\ LastEntry.fn = "GetState"
    /\ LastEntry.ret = "ACTIVE"
    /\ ~call.ret

\* a device of the set found ACTIVE: its path is returned
C32_MappedDeviceReused ==
    /\ MapperEntered
    /\ trace[MapperRead].ret = "ACTIVE"
    /\ RequestedName \in call.mapped_before
    /\ call.ret


----------------------------------------------------------------------------
(* MappedDeviceSet against the map and unmap calls *)

\* mapped_devices_ as the entries of the trace up to position i make it:
\* a successful map call adds its name, an unmap that returned success
\* removes its name
RECURSIVE MappedAfter(_, _)
MappedAfter(mapped, i) ==
    IF i > Len(trace) THEN mapped
    ELSE LET e == trace[i]
         IN  IF e.fn \in {"CreateLogicalPartition", "MapUpdateSnapshot"}
             THEN MappedAfter(IF e.ret THEN mapped \cup {e.arg.partition_name}
                              ELSE mapped, i + 1)
             ELSE IF e.fn = "UnmapPartitionOnDeviceMapper"
             THEN MappedAfter(IF e.ret THEN mapped \ {e.arg} ELSE mapped,
                              i + 1)
             ELSE MappedAfter(mapped, i + 1)

\* C33: after every operation MappedDeviceSet holds exactly the names it
\* held before, plus those of the successful map calls of the operation,
\* minus those for which a later unmap returned success: a name is added
\* only by a successful map, not by a failed one, and removed only by an
\* unmap of that name that returned success.
C33_MappedSetFollowsCalls ==
    (call.op # "none") => mapped_devices_ = MappedAfter(call.mapped_before, 1)

\* a cleanup that unmapped one device and failed to unmap the other
C33_Witness ==
    /\ IsCleanup
    /\ Cardinality(call.mapped_before) = 2
    /\ Cardinality(mapped_devices_) = 1
    /\ \E i \in Calls("UnmapPartitionOnDeviceMapper") : ~trace[i].ret

\* a failed map call
C33_FailedMapKeepsSet ==
    /\ IsGetPartitionDevice
    /\ \E m \in MapRequests : ~trace[m].ret
    /\ call.mapped_before # {}


----------------------------------------------------------------------------
(* The session fields after PreparePartitionsForUpdate *)

\* C34: after every PreparePartitionsForUpdate call, however it returned,
\* source_slot, target_slot, is_target_dynamic and target_supports_snapshot
\* hold the values derived from that call's arguments
\* (target_supports_snapshot being compared for a manifest with groups).
C34_SessionFieldsFromArguments ==
    IsPrepare =>
        /\ source_slot_ = call.source_slot
        /\ target_slot_ = call.target_slot
        /\ is_target_dynamic_ = (call.manifest.groups # << >>)
        /\ call.manifest.groups # << >> =>
              target_supports_snapshot_ = call.manifest.snapshot_enabled

\* What the code keeps: the two slots are those of the call, whichever way
\* it returned; is_target_dynamic is the call's once the call got past the
\* slot check, and target_supports_snapshot is the call's once the manifest
\* was found to have groups.
C34_SlotsFromArguments ==
    IsPrepare =>
        /\ source_slot_ = call.source_slot
        /\ target_slot_ = call.target_slot
        /\ call.source_slot # call.target_slot =>
              /\ is_target_dynamic_ = (call.manifest.groups # << >>)
              /\ is_target_dynamic_ =>
                    target_supports_snapshot_ = call.manifest.snapshot_enabled

\* a preparation rejected for its slots after one that set both flags
C34_StaleAfterRejectedCall ==
    /\ IsPrepare
    /\ call.reset_before
    /\ call.source_slot = call.target_slot
    /\ call.manifest.groups = << >>
    /\ is_target_dynamic_


----------------------------------------------------------------------------
(* The source slot's groups in the exported table *)

SourceSuffix == SlotSuffixForSlotNumber(call.source_slot)

SourceGroupsOf(table) ==
    {g \in table.groups : EndsWith(g.name, SourceSuffix)}

SourcePartitionsOf(table) ==
    {p \in table.partitions :
        EndsWith(p.name, SourceSuffix) \/ EndsWith(p.group_name, SourceSuffix)}

LoadedTables ==
    UNION {trace[l].ret : l \in Calls("MetadataBuilder::NewForUpdate")}

KeepsSource(loaded, exported) ==
    /\ SourceGroupsOf(loaded) \subseteq exported.groups
    /\ SourcePartitionsOf(loaded) \subseteq exported.partitions

\* C35: outside recovery every table PreparePartitionsForUpdate exports
\* still holds every group and partition of the source slot, sizes
\* unchanged, that the loaded table held; groups of the source slot are
\* removed only in a call in recovery on a Virtual A/B device, after a
\* failed snapshot attempt, with a manifest that is not incremental.
C35_SourceKeptOutsideRecovery ==
    IsPrepare =>
        \A e \in Calls("Export") : \A loaded \in LoadedTables :
            /\ ~kIsRecovery => KeepsSource(loaded, trace[e].arg)
            /\ ~KeepsSource(loaded, trace[e].arg) =>
                  /\ kIsRecovery
                  /\ IsEnabled(virtual_ab_)
                  /\ SnapshotPathFailed
                  /\ \A i \in 1..Len(call.manifest.partitions) :
                        ~call.manifest.partitions[i].has_old

\* an export outside recovery of a table loaded with groups of both slots
C35_Witness ==
    /\ IsPrepare
    /\ ~kIsRecovery
    /\ Calls("Export") # {}
    /\ \E loaded \in LoadedTables :
          /\ SourceGroupsOf(loaded) # {}
          /\ SourcePartitionsOf(loaded) # {}
          /\ loaded.groups # SourceGroupsOf(loaded)
    /\ call.ret

\* the source slot's groups removed from an exported table
C35_SourceRemovedInRecovery ==
    /\ IsPrepare
    /\ \E e \in Calls("Export") : \E loaded \in LoadedTables :
          ~KeepsSource(loaded, trace[e].arg)


----------------------------------------------------------------------------
(* UpdatePartitionMetadata applied twice *)

IsUpmRerun == call.op = "UpdatePartitionMetadata again"

\* C36: applying UpdatePartitionMetadata a second time with the same
\* manifest and target slot, on the table the first call left, returns
\* what the first call returned and leaves the same table.
C36_RerunIdempotent ==
    IsUpmRerun =>
        /\ call.result.ret = call.first.ret
        /\ call.result.builder = call.first.builder

\* a successful call that replaced groups of the target slot, run again
C36_Witness ==
    /\ IsUpmRerun
    /\ call.first.ret
    /\ call.result.ret
    /\ \E g \in call.builder.groups :
          EndsWith(g.name, SlotSuffixForSlotNumber(call.target_slot))
    /\ call.first.builder # call.builder
    /\ Len(call.manifest.groups) = 2


----------------------------------------------------------------------------
(* The budget check and the width of total_size *)

TrueSum == SumOfGroupSizes(call.manifest.groups, 1)

\* C37: the budget check is made against the arithmetic sum of the
\* manifest's group sizes: the total the call compares is that sum, and
\* whenever the sum is greater than the budget the call fails on the
\* budget check, also when the sum does not fit the unsigned total.
C37_BudgetAgainstTrueSum ==
    IsUpm =>
        /\ call.result.total_size = TrueSum
        /\ TrueSum > call.result.allocatable_space =>
              (~call.result.ret /\ call.result.step = "budget")

\* Whenever the sum of the group sizes fits the unsigned total, the total
\* is that sum and a sum above the budget fails the call on the budget
\* check.
C37_BudgetWhenSumFits ==
    (IsUpm /\ TrueSum < UintRange) =>
        /\ call.result.total_size = TrueSum
        /\ TrueSum > call.result.allocatable_space =>
              (~call.result.ret /\ call.result.step = "budget")

\* the sum wrapped and the call went past the budget check
C37_WrappedSumAccepted ==
    /\ IsUpm
    /\ TrueSum >= UintRange
    /\ call.result.total_size < TrueSum
    /\ call.result.step # "budget"


----------------------------------------------------------------------------
(* Metadata that failed to load *)

\* the load of the current slot's metadata for the block-device check
\* returned nullptr
CurrentLoadFailed ==
    \E i \in MetadataLoads : i > RequestedLoad /\ trace[i].ret = {}

\* C38: GetPartitionDevice never uses a metadata table that failed to
\* load: when the partition is absent from the requested slot's metadata
\* and the current slot's metadata cannot be loaded for the block-device
\* check, the call returns an error without asking the missing table.
C38_FailedLoadNotUsed ==
    (IsGetPartitionDevice /\ AbsentFromMetadata /\ CurrentLoadFailed) =>
        /\ ~call.ret
        /\ ~TraceHas("HasBlockDevice")
        /\ ~TraceHas("abort")
        /\ ~StaticLookup

\* The load of the requested slot's metadata is checked: when it fails the
\* call returns an error at once, and no table is asked for the partition.
C38_RequestedLoadChecked ==
    (IsGetPartitionDevice /\ MetadataLoads # {}
        /\ trace[RequestedLoad].ret = {}) =>
        /\ ~call.ret
        /\ Len(trace) = RequestedLoad

\* the missing table was asked and the call went on to the static device
C38_StaticAfterMissingTable ==
    /\ IsGetPartitionDevice
    /\ CurrentMetadataMissing
    /\ StaticLookup
    /\ call.ret


----------------------------------------------------------------------------
(* Snapshot sessions begun by a failing call *)

BegunSessions == {b \in Calls("BeginUpdate") : trace[b].ret}

CancelledAfter(b) == \E c \in Calls("CancelUpdate") : c > b

\* C39: when PreparePartitionsForUpdate returns failure on a Virtual A/B
\* device, every successful BeginUpdate of the call is followed, before
\* the call returns, by a CancelUpdate.
C39_FailedCallCancelsSession ==
    (IsPrepare /\ IsEnabled(virtual_ab_) /\ ~call.ret) =>
        \A b \in BegunSessions : CancelledAfter(b)

\* In recovery a successful BeginUpdate of a failing call is followed by a
\* CancelUpdate; outside recovery no CancelUpdate follows a BeginUpdate.
C39_CancelledOnlyInRecovery ==
    (IsPrepare /\ IsEnabled(virtual_ab_) /\ ~call.ret) =>
        \A b \in BegunSessions : CancelledAfter(b) <=> kIsRecovery

\* a failing call outside recovery that leaves the session it began
C39_SessionLeftOpen ==
    /\ IsPrepare
    /\ ~kIsRecovery
    /\ ~call.ret
    /\ BegunSessions # {}
    /\ Calls("CancelUpdate") = {}
    /\ update_state = "Initiated"


----------------------------------------------------------------------------
(* Mappings of the current slot made by others *)

CurrentSlotLookup ==
    IsGetPartitionDevice /\ call.slot = call.current_slot

TeardownCalls ==
    CallsIn({"DestroyLogicalPartition", "UnmapUpdateSnapshot"})

\* C40: GetPartitionDevice for a partition of the currently-running slot
\* never asks for the teardown of a device-mapper mapping the controller
\* did not create itself, also when the state of the name changes between
\* the state read of GetDynamicPartitionDevice and that of
\* MapPartitionOnDeviceMapper.
C40_ForeignMappingKept ==
    (CurrentSlotLookup /\ RequestedName \notin call.mapped_before) =>
        TeardownCalls = {}

\* As long as the two state reads agree, a lookup for the current slot
\* tears nothing down.
C40_KeptWhenStateStable ==
    (CurrentSlotLookup /\ MapperReads # {}
        /\ trace[MapperRead].ret = trace[FirstStateRead].ret) =>
        TeardownCalls = {}

\* the name became ACTIVE between the two reads and the mapping, which the
\* controller had not made, was destroyed
C40_ForeignMappingDestroyed ==
    /\ CurrentSlotLookup
    /\ RequestedName \notin call.mapped_before
    /\ MapperReads # {}
    /\ trace[FirstStateRead].ret = "INVALID"
    /\ trace[MapperRead].ret = "ACTIVE"
    /\ \E i \in Calls("DestroyLogicalPartition") : trace[i].ret

=============================================================================
